---- MODULE Spec2Model ----
(***************************************************************************)
(* A model of the MaCow flow composition engine: the Flow adapters         *)
(* (flows/flow.py), the multi-scale pyramid and its composites             *)
(* (flows/macow.py) and the generative model wrappers                      *)
(* (models/flow_gen.py).                                                   *)
(*                                                                         *)
(* A sample tensor [channels, height, width] is a record of its shape and  *)
(* of its integer elements in contiguous order.  No operation of the       *)
(* pyramid mixes samples, so the pyramid is modelled on one sample; the    *)
(* wrappers that reshape over the batch dimension work on sequences of     *)
(* samples (rows).                                                         *)
(***************************************************************************)
EXTENDS Integers, Sequences, FiniteSets, TLC

\* ------------------------------------------------------------------ bounds
MaxLevels == 3
MaxSeed == 1
MaxBatch == 2
MaxSamples == 2
MaxRegisters == 3

\* ----------------------------------------------------------------- tensors
\* A sample tensor [c, h, w] holds its elements in v, channel by channel and
\* row by row (the contiguous layout of the array runtime).
Tensor(c, h, w, v) == [c |-> c, h |-> h, w |-> w, v |-> v]
Channels(t) == t.c
Height(t) == t.h
Width(t) == t.w

\* a sequence with its elements computed
Seq0(q) == q \o <<>>

\* conditioning values as Python sees them: None, a tensor, or a tuple
None == [k |-> "none"]
T(t) == [k |-> "tensor", t |-> t]
Tuple(items) == [k |-> "tuple", items |-> items]

\* what is left of a tensor when an operation raised
Bad == Tensor(0, 0, 0, <<>>)

\* the outcome of a call: a return value or a raised exception
Raise == [ok |-> FALSE, out |-> Bad, logdet |-> 0, trace |-> <<>>]

\* macow.utils.squeeze2d(x, factor=2): [C, H, W] -> [4C, H/2, W/2];
\* out[4c + 2fh + fw, h, w] = x[c, 2h + fh, 2w + fw], indices from 0
SqueezeSource(x, i) ==
  LET W2 == x.w \div 2
      H2 == x.h \div 2
      w0 == i % W2
      h0 == (i \div W2) % H2
      oc == i \div (W2 * H2)
  IN ((oc \div 4) * x.h + 2 * h0 + ((oc % 4) \div 2)) * x.w + 2 * w0 + (oc % 2)

squeeze2d(x) ==
  Tensor(4 * x.c, x.h \div 2, x.w \div 2,
         Seq0([i \in 1..Len(x.v) |-> x.v[SqueezeSource(x, i - 1) + 1]]))

\* squeeze2d raises on an input that is no tensor or has an odd side
CanSqueeze(x) == x.c > 0 /\ x.h > 0 /\ x.w > 0 /\ x.h % 2 = 0 /\ x.w % 2 = 0

\* macow.utils.unsqueeze2d(x, factor=2): [4C, H, W] -> [C, 2H, 2W];
\* out[c, 2h + fh, 2w + fw] = x[4c + 2fh + fw, h, w], indices from 0
UnsqueezeSource(x, i) ==
  LET W2 == 2 * x.w
      H2 == 2 * x.h
      w0 == i % W2
      h0 == (i \div W2) % H2
      c0 == i \div (W2 * H2)
  IN ((4 * c0 + 2 * (h0 % 2) + (w0 % 2)) * x.h + (h0 \div 2)) * x.w + (w0 \div 2)

unsqueeze2d(x) ==
  Tensor(x.c \div 4, 2 * x.h, 2 * x.w,
         Seq0([i \in 1..Len(x.v) |-> x.v[UnsqueezeSource(x, i - 1) + 1]]))

CanUnsqueeze(x) == x.c > 0 /\ x.c % 4 = 0 /\ x.h > 0 /\ x.w > 0

Min(a, b) == IF a < b THEN a ELSE b

\* macow.utils.split2d(x, z1_channels): (x[:, :z1], x[:, z1:])
split2d(x, z1_channels) ==
  LET z1 == Min(z1_channels, x.c)
  IN <<Tensor(z1, x.h, x.w, SubSeq(x.v, 1, z1 * x.h * x.w)),
       Tensor(x.c - z1, x.h, x.w, SubSeq(x.v, z1 * x.h * x.w + 1, Len(x.v)))>>

\* macow.utils.unsplit2d(xs): concatenation along the channel dimension
Cat(a, b) == Tensor(a.c + b.c, a.h, a.w, a.v \o b.v)

RECURSIVE unsplit2d(_)
unsplit2d(xs) == IF Len(xs) = 1 THEN xs[1] ELSE Cat(xs[1], unsplit2d(Tail(xs)))

\* torch.cat raises when the spatial sizes of the parts differ
CanUnsplit(xs) ==
  /\ Len(xs) > 0
  /\ \A i \in 1..Len(xs) : xs[i].h > 0 /\ xs[i].h = xs[1].h /\ xs[i].w = xs[1].w

Reverse(q) == [i \in 1..Len(q) |-> q[Len(q) + 1 - i]]

RECURSIVE SumTo(_, _)
SumTo(q, n) == IF n = 0 THEN 0 ELSE q[n] + SumTo(q, n - 1)

SumSeq(q) == SumTo(q, Len(q))

\* ------------------------------------------------- elementary flows
\* An elementary flow (ActNorm2dFlow, MaskedConvFlow, GlowStep, Prior) is a
\* bijection with a closed-form inverse and a log-determinant.  Flow e of a
\* parameter set with seed p maps every element v to Sign * v + Bias + cond,
\* where cond is the sum over the channels of the conditioning signal at the
\* same spatial position.
Sign(e, p) == IF (e.id + p) % 2 = 0 THEN 1 ELSE -1
Bias(e, p) == (e.id + p) % 3
Weight(e, p) == (e.id + p) % 5

\* a flow built for s_channels conditioning channels takes a conditioning
\* tensor of that many channels and of the spatial size of its input
CondOk(e, x, s) ==
  IF ~e.uses_s THEN TRUE
  ELSE IF e.s_channels = 0 THEN s.k = "none"
  ELSE /\ s.k = "tensor"
       /\ s.t.c = e.s_channels
       /\ s.t.h = x.h
       /\ s.t.w = x.w

\* the conditioning term of every spatial position
CondPlane(e, x, s) ==
  IF e.uses_s /\ s.k = "tensor"
    THEN Seq0([i \in 1..(x.h * x.w) |->
                 SumSeq([c \in 1..s.t.c |-> s.t.v[(c - 1) * x.h * x.w + i]])])
    ELSE Seq0([i \in 1..(x.h * x.w) |-> 0])

ElemOk(e, x, s) == x.c = e.in_channels /\ x.h > 0 /\ x.w > 0 /\ CondOk(e, x, s)

\* the log-determinant depends on the flow and on the data it is applied to
ElemLogdet(e, p, x) == Weight(e, p) + x.v[1]

ElemMap(e, p, x, cond) ==
  Tensor(x.c, x.h, x.w,
         Seq0([i \in 1..Len(x.v) |->
                 Sign(e, p) * x.v[i] + Bias(e, p) + cond[((i - 1) % (x.h * x.w)) + 1]]))

ElemInverse(e, p, y, cond) ==
  Tensor(y.c, y.h, y.w,
         Seq0([i \in 1..Len(y.v) |->
                 Sign(e, p) * (y.v[i] - Bias(e, p) - cond[((i - 1) % (y.h * y.w)) + 1])]))

Traced(e, op, scale, out, logdet) ==
  [ok |-> TRUE, out |-> out, logdet |-> logdet,
   trace |-> <<[id |-> e.id, op |-> op, logdet |-> logdet, scale |-> scale]>>]

Raised(e, op, scale) ==
  [Raise EXCEPT !.trace = <<[id |-> e.id, op |-> op, logdet |-> 0, scale |-> scale]>>]

ElemForward(e, p, x, s) ==
  IF ~ElemOk(e, x, s) THEN Raised(e, "forward", 0)
  ELSE Traced(e, "forward", 0, ElemMap(e, p, x, CondPlane(e, x, s)), ElemLogdet(e, p, x))

BackTraced(e, p, xin) == Traced(e, "backward", 0, xin, 0 - ElemLogdet(e, p, xin))

\* the inverse map; its log-determinant is computed on the recovered input
ElemBackward(e, p, y, s) ==
  IF ~ElemOk(e, y, s) THEN Raised(e, "backward", 0)
  ELSE BackTraced(e, p, ElemInverse(e, p, y, CondPlane(e, y, s)))

\* init: the forward computation, recorded as an init of the flow's parameters
\* with the given init_scale
ElemInit(e, p, x, s, init_scale) ==
  IF ~ElemOk(e, x, s) THEN Raised(e, "init", init_scale)
  ELSE Traced(e, "init", init_scale, ElemMap(e, p, x, CondPlane(e, x, s)),
              ElemLogdet(e, p, x))

\* a variant of Acc that keeps the last log-determinant instead of the sum
AccLast(r, q) ==
  [ok |-> q.ok, out |-> q.out, logdet |-> q.logdet, trace |-> r.trace \o q.trace]

\* accumulate: the running result r followed by sub-flow result q
Acc(r, q) ==
  [ok |-> q.ok, out |-> q.out, logdet |-> r.logdet + q.logdet,
   trace |-> r.trace \o q.trace]

Start(x) == [ok |-> TRUE, out |-> x, logdet |-> 0, trace |-> <<>>]

\* out, logdet = flow.forward(out, s); logdet_accum = logdet_accum + logdet
ThenForward(r, e, p, s) == IF r.ok THEN Acc(r, ElemForward(e, p, r.out, s)) ELSE r
ThenBackward(r, e, p, s) == IF r.ok THEN Acc(r, ElemBackward(e, p, r.out, s)) ELSE r
ThenInit(r, e, p, s, init_scale) ==
  IF r.ok THEN Acc(r, ElemInit(e, p, r.out, s, init_scale)) ELSE r

\* ------------------------------------------------------- construction
\* the elementary flows are built with the channel counts of their level
Elem(id, in_channels, s_channels, uses_s) ==
  [id |-> id, in_channels |-> in_channels, s_channels |-> s_channels, uses_s |-> uses_s]

\* MaCowUnit.__init__: two actnorms and four masked convolutions (orders A-D)
MaCowUnitNew(id, in_channels, s_channels) ==
  [actnorm1 |-> Elem(id + 1, in_channels, s_channels, FALSE),
   conv1 |-> Elem(id + 2, in_channels, s_channels, TRUE),
   conv2 |-> Elem(id + 3, in_channels, s_channels, TRUE),
   actnorm2 |-> Elem(id + 4, in_channels, s_channels, FALSE),
   conv3 |-> Elem(id + 5, in_channels, s_channels, TRUE),
   conv4 |-> Elem(id + 6, in_channels, s_channels, TRUE)]

\* MaCowStep.__init__: num_units = 2 units and a Glow step
MaCowStepNew(id, in_channels, s_channels) ==
  [units |-> [u \in 1..2 |-> MaCowUnitNew(100 * id + 10 * u, in_channels, s_channels)],
   glow_step |-> Elem(100 * id + 30, in_channels, s_channels, TRUE)]

\* the steps of one block or of one layer of an internal block
StepsNew(id, num_step, in_channels, s_channels) ==
  [k \in 1..num_step |-> MaCowStepNew(id + k, in_channels, s_channels)]

\* MaCowBottomBlock.__init__ / MaCowTopBlock.__init__
MaCowPlainBlockNew(kind, level, num_steps, in_channels, s_channels) ==
  [ok |-> TRUE, kind |-> kind, in_channels |-> in_channels,
   steps |-> StepsNew(100 * level, num_steps, in_channels, s_channels),
   layers |-> <<>>, priors |-> <<>>, z1_channels |-> in_channels]

\* Prior.__init__ (as NICE.__init__): out_channels = in_channels // factor,
\* z1_channels = in_channels - out_channels
PriorNew(id, in_channels, s_channels, factor) ==
  [e |-> Elem(id, in_channels, s_channels, TRUE),
   z1_channels |-> in_channels - (in_channels \div factor)]

\* a variant of the loop that gives every layer's prior the block's factor
RECURSIVE InternalLayersNewFixedFactor(_, _, _, _, _, _, _, _)
InternalLayersNewFixedFactor(level, num_steps, i, in_channels, channel_step, factor, s_channels, acc) ==
  IF ~acc.ok \/ i > Len(num_steps) THEN [acc EXCEPT !.z1_channels = in_channels]
  ELSE IF factor <= 0 THEN [acc EXCEPT !.ok = FALSE]
  ELSE LET layer == StepsNew(100 * level + 10 * i, num_steps[i], in_channels, s_channels)
           prior == PriorNew(100 * (100 * level + 10 * i + 9), in_channels, s_channels, factor)
           in_next == in_channels - channel_step
       IN InternalLayersNewFixedFactor(level, num_steps, i + 1, in_next, channel_step, factor,
            s_channels,
            [acc EXCEPT !.layers = Append(@, layer),
                        !.priors = Append(@, prior),
                        !.ok = (in_next = prior.z1_channels)])

\* the loop of MaCowInternalBlock.__init__ over num_steps, from layer i on
RECURSIVE InternalLayersNew(_, _, _, _, _, _, _, _)
InternalLayersNew(level, num_steps, i, in_channels, channel_step, factor, s_channels, acc) ==
  IF ~acc.ok \/ i > Len(num_steps) THEN [acc EXCEPT !.z1_channels = in_channels]
  ELSE IF factor <= 0 THEN [acc EXCEPT !.ok = FALSE]
  ELSE LET layer == StepsNew(100 * level + 10 * i, num_steps[i], in_channels, s_channels)
           prior == PriorNew(100 * (100 * level + 10 * i + 9), in_channels, s_channels, factor)
           in_next == in_channels - channel_step
       IN InternalLayersNew(level, num_steps, i + 1, in_next, channel_step, factor - 1,
            s_channels,
            [acc EXCEPT !.layers = Append(@, layer),
                        !.priors = Append(@, prior),
                        !.ok = (in_next = prior.z1_channels)])

\* MaCowInternalBlock.__init__
MaCowInternalBlockNew(level, num_steps, in_channels, s_channels, factor) ==
  IF ~(Len(num_steps) < factor)
    THEN [ok |-> FALSE, kind |-> "internal", in_channels |-> in_channels, steps |-> <<>>,
          layers |-> <<>>, priors |-> <<>>, z1_channels |-> in_channels]
    ELSE InternalLayersNew(level, num_steps, 1, in_channels, in_channels \div factor,
           factor, s_channels,
           [ok |-> TRUE, kind |-> "internal", in_channels |-> in_channels, steps |-> <<>>,
            layers |-> <<>>, priors |-> <<>>, z1_channels |-> in_channels])

\* the loop of MaCow.__init__ over the levels (0-based level), blocks so far in acc
RECURSIVE MaCowBlocksNew(_, _, _, _, _, _)
MaCowBlocksNew(cfg, factors, level, in_channels, s_channels, acc) ==
  IF level = cfg.levels THEN [ok |-> TRUE, blocks |-> acc]
  ELSE IF level = 0 /\ cfg.bottom
    THEN MaCowBlocksNew(cfg, factors, level + 1, in_channels, s_channels,
           Append(acc, MaCowPlainBlockNew("bottom", level, cfg.num_steps[level + 1][1],
                                          in_channels, s_channels)))
  ELSE IF level = cfg.levels - 1
    THEN MaCowBlocksNew(cfg, factors, level + 1, in_channels * 4, s_channels * 4,
           Append(acc, MaCowPlainBlockNew("top", level, cfg.num_steps[level + 1][1],
                                          in_channels * 4, s_channels * 4)))
  ELSE LET macow_block == MaCowInternalBlockNew(level, cfg.num_steps[level + 1],
                            in_channels * 4, s_channels * 4, factors[level + 1])
       IN IF ~macow_block.ok THEN [ok |-> FALSE, blocks |-> acc]
          ELSE MaCowBlocksNew(cfg, factors, level + 1, macow_block.z1_channels,
                              s_channels * 4, Append(acc, macow_block))

\* a variant of MaCow.__init__ that counts the internal levels as levels - 2
\* whether or not there is a bottom level
MaCowNewMiscounted(cfg) ==
  LET factors == IF cfg.bottom THEN <<0>> \o cfg.factors \o <<0>> ELSE cfg.factors \o <<0>>
      checked == /\ cfg.levels > 1
                 /\ Len(cfg.kernel_size) = 2
                 /\ cfg.levels = Len(cfg.num_steps)
                 /\ cfg.levels = Len(factors)
                 /\ cfg.levels = Len(cfg.hidden_channels)
      built == MaCowBlocksNew(cfg, factors, 0, cfg.in_channels, cfg.s_channels, <<>>)
  IN IF ~checked
       THEN [ok |-> FALSE, inverse |-> cfg.inverse, levels |-> cfg.levels,
             internals |-> 0, blocks |-> <<>>]
       ELSE [ok |-> built.ok, inverse |-> cfg.inverse, levels |-> cfg.levels,
             internals |-> cfg.levels - 2, blocks |-> built.blocks]

\* a variant of MaCow.__init__ that takes a kernel_size of any length
MaCowNewAnyKernel(cfg) ==
  LET factors == IF cfg.bottom THEN <<0>> \o cfg.factors \o <<0>> ELSE cfg.factors \o <<0>>
      checked == /\ cfg.levels > 1
                 /\ cfg.levels = Len(cfg.num_steps)
                 /\ cfg.levels = Len(factors)
                 /\ cfg.levels = Len(cfg.hidden_channels)
      built == MaCowBlocksNew(cfg, factors, 0, cfg.in_channels, cfg.s_channels, <<>>)
  IN IF ~checked
       THEN [ok |-> FALSE, inverse |-> cfg.inverse, levels |-> cfg.levels,
             internals |-> 0, blocks |-> <<>>]
       ELSE [ok |-> built.ok, inverse |-> cfg.inverse, levels |-> cfg.levels,
             internals |-> IF cfg.bottom THEN cfg.levels - 2 ELSE cfg.levels - 1,
             blocks |-> built.blocks]

\* MaCow.__init__: the assertions, then the blocks
MaCowNew(cfg) ==
  LET factors == IF cfg.bottom THEN <<0>> \o cfg.factors \o <<0>> ELSE cfg.factors \o <<0>>
      checked == /\ cfg.levels > 1
                 /\ Len(cfg.kernel_size) = 2
                 /\ cfg.levels = Len(cfg.num_steps)
                 /\ cfg.levels = Len(factors)
                 /\ cfg.levels = Len(cfg.hidden_channels)
      built == MaCowBlocksNew(cfg, factors, 0, cfg.in_channels, cfg.s_channels, <<>>)
  IN IF ~checked
       THEN [ok |-> FALSE, inverse |-> cfg.inverse, levels |-> cfg.levels,
             internals |-> 0, blocks |-> <<>>]
       ELSE [ok |-> built.ok, inverse |-> cfg.inverse, levels |-> cfg.levels,
             internals |-> IF cfg.bottom THEN cfg.levels - 2 ELSE cfg.levels - 1,
             blocks |-> built.blocks]

\* ------------------------------------------------------------- MaCowUnit
\* MaCowUnit.forward: actnorm1, conv1, conv2, actnorm2, conv3, conv4
MaCowUnitForward(u, p, input, s) ==
  ThenForward(
    ThenForward(
      ThenForward(
        ThenForward(
          ThenForward(
            ElemForward(u.actnorm1, p, input, None),
            u.conv1, p, s),
          u.conv2, p, s),
        u.actnorm2, p, None),
      u.conv3, p, s),
    u.conv4, p, s)

\* a variant of MaCowUnit.backward that inverts conv3 before conv4
MaCowUnitBackwardSwapped(u, p, input, s) ==
  ThenBackward(
    ThenBackward(
      ThenBackward(
        ThenBackward(
          ThenBackward(
            ElemBackward(u.conv3, p, input, s),
            u.conv4, p, s),
          u.actnorm2, p, None),
        u.conv2, p, s),
      u.conv1, p, s),
    u.actnorm1, p, None)

\* MaCowUnit.backward: conv4, conv3, actnorm2, conv2, conv1, actnorm1
MaCowUnitBackward(u, p, input, s) ==
  ThenBackward(
    ThenBackward(
      ThenBackward(
        ThenBackward(
          ThenBackward(
            ElemBackward(u.conv4, p, input, s),
            u.conv3, p, s),
          u.actnorm2, p, None),
        u.conv2, p, s),
      u.conv1, p, s),
    u.actnorm1, p, None)

\* MaCowUnit.init: actnorm1, conv1, conv2, actnorm2, conv3, conv4
MaCowUnitInit(u, p, data, s, init_scale) ==
  ThenInit(
    ThenInit(
      ThenInit(
        ThenInit(
          ThenInit(
            ElemInit(u.actnorm1, p, data, None, init_scale),
            u.conv1, p, s, init_scale),
          u.conv2, p, s, init_scale),
        u.actnorm2, p, None, init_scale),
      u.conv3, p, s, init_scale),
    u.conv4, p, s, init_scale)

\* ------------------------------------------------------------- MaCowStep
\* out, logdet = unit.forward(out, s=s); logdet_accum = logdet_accum + logdet
ThenUnitForward(r, u, p, s) ==
  IF r.ok THEN Acc(r, MaCowUnitForward(u, p, r.out, s)) ELSE r
ThenUnitBackward(r, u, p, s) ==
  IF r.ok THEN Acc(r, MaCowUnitBackward(u, p, r.out, s)) ELSE r
ThenUnitInit(r, u, p, s, init_scale) ==
  IF r.ok THEN Acc(r, MaCowUnitInit(u, p, r.out, s, init_scale)) ELSE r

\* for unit in self.units, from unit i on
RECURSIVE UnitsForward(_, _, _, _, _)
UnitsForward(units, i, p, r, s) ==
  IF i > Len(units) THEN r
  ELSE UnitsForward(units, i + 1, p, ThenUnitForward(r, units[i], p, s), s)

\* for unit in reversed(self.units), from unit i down
RECURSIVE UnitsBackward(_, _, _, _, _)
UnitsBackward(units, i, p, r, s) ==
  IF i < 1 THEN r
  ELSE UnitsBackward(units, i - 1, p, ThenUnitBackward(r, units[i], p, s), s)

RECURSIVE UnitsInit(_, _, _, _, _, _)
UnitsInit(units, i, p, r, s, init_scale) ==
  IF i > Len(units) THEN r
  ELSE UnitsInit(units, i + 1, p, ThenUnitInit(r, units[i], p, s, init_scale), s,
                 init_scale)

\* MaCowStep.forward: the units in order, then the Glow step
MaCowStepForward(step, p, input, s) ==
  ThenForward(UnitsForward(step.units, 1, p, Start(input), s), step.glow_step, p, s)

\* MaCowStep.backward: the Glow step, then the units in reverse order
MaCowStepBackward(step, p, input, s) ==
  UnitsBackward(step.units, Len(step.units), p,
                ElemBackward(step.glow_step, p, input, s), s)

\* a variant of MaCowStep.init that leaves the Glow step uninitialized
MaCowStepInitUnitsOnly(step, p, data, s, init_scale) ==
  UnitsInit(step.units, 1, p, Start(data), s, init_scale)

\* MaCowStep.init
MaCowStepInit(step, p, data, s, init_scale) ==
  ThenInit(UnitsInit(step.units, 1, p, Start(data), s, init_scale),
           step.glow_step, p, s, init_scale)

\* out, logdet = step.forward(out, s=s); logdet_accum = logdet_accum + logdet
ThenStepForward(r, step, p, s) ==
  IF r.ok THEN Acc(r, MaCowStepForward(step, p, r.out, s)) ELSE r
ThenStepBackward(r, step, p, s) ==
  IF r.ok THEN Acc(r, MaCowStepBackward(step, p, r.out, s)) ELSE r
ThenStepInit(r, step, p, s, init_scale) ==
  IF r.ok THEN Acc(r, MaCowStepInit(step, p, r.out, s, init_scale)) ELSE r

\* for step in steps, from step i on
RECURSIVE StepsForward(_, _, _, _, _)
StepsForward(steps, i, p, r, s) ==
  IF i > Len(steps) THEN r
  ELSE StepsForward(steps, i + 1, p, ThenStepForward(r, steps[i], p, s), s)

\* for step in reversed(steps), from step i down
RECURSIVE StepsBackward(_, _, _, _, _)
StepsBackward(steps, i, p, r, s) ==
  IF i < 1 THEN r
  ELSE StepsBackward(steps, i - 1, p, ThenStepBackward(r, steps[i], p, s), s)

RECURSIVE StepsInit(_, _, _, _, _, _)
StepsInit(steps, i, p, r, s, init_scale) ==
  IF i > Len(steps) THEN r
  ELSE StepsInit(steps, i + 1, p, ThenStepInit(r, steps[i], p, s, init_scale), s,
                 init_scale)

\* ------------------------------------- MaCowBottomBlock and MaCowTopBlock
\* MaCowBottomBlock.forward / MaCowTopBlock.forward
MaCowPlainBlockForward(block, p, input, s) ==
  StepsForward(block.steps, 1, p, Start(input), s)

\* MaCowBottomBlock.backward / MaCowTopBlock.backward
MaCowPlainBlockBackward(block, p, input, s) ==
  StepsBackward(block.steps, Len(block.steps), p, Start(input), s)

\* MaCowBottomBlock.init / MaCowTopBlock.init
MaCowPlainBlockInit(block, p, data, s, init_scale) ==
  StepsInit(block.steps, 1, p, Start(data), s, init_scale)

\* ----------------------------------------------------- MaCowInternalBlock
\* The running state of a block traversal: the result r so far and the list
\* outputs of split-off slices.
\* out1, out2 = split2d(out, prior.z1_channels); outputs.append(out2); out = out1
SplitOff(r, z1_channels, outputs) ==
  [r |-> IF r.ok THEN [r EXCEPT !.out = split2d(r.out, z1_channels)[1]] ELSE r,
   outputs |-> IF r.ok THEN Append(outputs, split2d(r.out, z1_channels)[2]) ELSE outputs]

\* a variant of UnsplitAll that does not reverse the list
UnsplitAllInOrder(r, outputs) ==
  IF ~r.ok THEN r
  ELSE IF CanUnsplit(Append(outputs, r.out))
    THEN [r EXCEPT !.out = unsplit2d(Append(outputs, r.out))]
           @@ [slices |-> Append(outputs, r.out)]
    ELSE [r EXCEPT !.ok = FALSE]

\* outputs.append(out); outputs.reverse(); out = unsplit2d(outputs)
\* (slices: the list before it is reversed, the leaked slices in layer order
\* and then the retained one)
UnsplitAll(r, outputs) ==
  IF ~r.ok THEN r
  ELSE IF CanUnsplit(Append(outputs, r.out))
    THEN [r EXCEPT !.out = unsplit2d(Reverse(Append(outputs, r.out)))]
           @@ [slices |-> Append(outputs, r.out)]
    ELSE [r EXCEPT !.ok = FALSE]

\* the loop of MaCowInternalBlock.forward over zip(layers, priors), from layer i
RECURSIVE InternalLayersForward(_, _, _, _, _)
InternalLayersForward(block, i, p, st, s) ==
  IF i > Len(block.layers) THEN UnsplitAll(st.r, st.outputs)
  ELSE InternalLayersForward(block, i + 1, p,
         SplitOff(ThenForward(StepsForward(block.layers[i], 1, p, st.r, s),
                              block.priors[i].e, p, s),
                  block.priors[i].z1_channels, st.outputs),
         s)

\* MaCowInternalBlock.forward
MaCowInternalBlockForward(block, p, input, s) ==
  InternalLayersForward(block, 1, p, [r |-> Start(input), outputs |-> <<>>], s)

\* the first loop of MaCowInternalBlock.backward: split at every prior's z1_channels
RECURSIVE InternalSplits(_, _, _)
InternalSplits(block, i, st) ==
  IF i > Len(block.priors) THEN st
  ELSE InternalSplits(block, i + 1, SplitOff(st.r, block.priors[i].z1_channels, st.outputs))

\* out2 = outputs.pop(); out = unsplit2d([out, out2]); prior.backward; the
\* layer's steps in reverse order
LayerBackward(block, i, p, st, s) ==
  IF ~st.r.ok THEN st
  ELSE IF Len(st.outputs) = 0 \/ ~CanUnsplit(<<st.r.out, st.outputs[Len(st.outputs)]>>)
    THEN [st EXCEPT !.r.ok = FALSE]
    ELSE [r |-> StepsBackward(block.layers[i], Len(block.layers[i]), p,
                  ThenBackward([st.r EXCEPT !.out =
                                  unsplit2d(<<st.r.out, st.outputs[Len(st.outputs)]>>)],
                               block.priors[i].e, p, s),
                  s),
          outputs |-> SubSeq(st.outputs, 1, Len(st.outputs) - 1)]

\* the second loop of MaCowInternalBlock.backward, over the reversed layers
RECURSIVE InternalLayersBackward(_, _, _, _, _)
InternalLayersBackward(block, i, p, st, s) ==
  IF i < 1
    THEN \* assert len(outputs) == 0
         IF st.r.ok /\ Len(st.outputs) # 0 THEN [st.r EXCEPT !.ok = FALSE] ELSE st.r
    ELSE InternalLayersBackward(block, i - 1, p, LayerBackward(block, i, p, st, s), s)

\* MaCowInternalBlock.backward
MaCowInternalBlockBackward(block, p, input, s) ==
  InternalLayersBackward(block, Len(block.layers), p,
                         InternalSplits(block, 1, [r |-> Start(input), outputs |-> <<>>]), s)

\* the loop of MaCowInternalBlock.init over zip(layers, priors), from layer i
RECURSIVE InternalLayersInit(_, _, _, _, _, _)
InternalLayersInit(block, i, p, st, s, init_scale) ==
  IF i > Len(block.layers) THEN UnsplitAll(st.r, st.outputs)
  ELSE InternalLayersInit(block, i + 1, p,
         SplitOff(ThenInit(StepsInit(block.layers[i], 1, p, st.r, s, init_scale),
                           block.priors[i].e, p, s, init_scale),
                  block.priors[i].z1_channels, st.outputs),
         s, init_scale)

\* MaCowInternalBlock.init
MaCowInternalBlockInit(block, p, data, s, init_scale) ==
  InternalLayersInit(block, 1, p, [r |-> Start(data), outputs |-> <<>>], s, init_scale)

\* block.forward / block.backward / block.init by the block's class
BlockForward(block, p, input, s) ==
  IF block.kind = "internal" THEN MaCowInternalBlockForward(block, p, input, s)
                             ELSE MaCowPlainBlockForward(block, p, input, s)

BlockBackward(block, p, input, s) ==
  IF block.kind = "internal" THEN MaCowInternalBlockBackward(block, p, input, s)
                             ELSE MaCowPlainBlockBackward(block, p, input, s)

BlockInit(block, p, data, s, init_scale) ==
  IF block.kind = "internal" THEN MaCowInternalBlockInit(block, p, data, s, init_scale)
                             ELSE MaCowPlainBlockInit(block, p, data, s, init_scale)

\* ------------------------------------------------------------------ MaCow
\* The state of one traversal: the running tensor, conditioning and
\* log-determinant, the list outputs of leaked slices (each tagged with the
\* block that leaked it), and a record of what the traversal did: the tags
\* pushed and popped in order, the calls of squeeze2d on the conditioning
\* (ssq), the blocks invoked with the heights and channels of their two inputs, and the
\* error that ended it ("" when it returned).
Traversal(input, s) ==
  [ok |-> TRUE, out |-> input, logdet |-> 0, trace |-> <<>>, s |-> s,
   outputs |-> <<>>, pushed |-> <<>>, popped |-> <<>>, ssq |-> 0,
   calls |-> <<>>, err |-> ""]

Fail(st, err) == [st EXCEPT !.ok = FALSE, !.err = err]

Squeezing(block) == block.kind = "internal" \/ block.kind = "top"

\* if s is not None: s = squeeze2d(s, factor=2)
SqueezeS(st) ==
  IF ~st.ok \/ st.s.k = "none" THEN st
  ELSE IF st.s.k = "tensor" /\ CanSqueeze(st.s.t)
    THEN [st EXCEPT !.s = T(squeeze2d(st.s.t)), !.ssq = @ + 1]
    ELSE [Fail(st, "squeeze") EXCEPT !.ssq = @ + 1]

\* if s is not None: s = unsqueeze2d(s, factor=2)
UnsqueezeS(st) ==
  IF ~st.ok \/ st.s.k = "none" THEN st
  ELSE IF st.s.k = "tensor" /\ CanUnsqueeze(st.s.t)
    THEN [st EXCEPT !.s = T(unsqueeze2d(st.s.t))]
    ELSE Fail(st, "unsqueeze")

\* out = squeeze2d(out, factor=2)
SqueezeOut(st) ==
  IF ~st.ok THEN st
  ELSE IF CanSqueeze(st.out) THEN [st EXCEPT !.out = squeeze2d(st.out)]
  ELSE Fail(st, "squeeze")

\* out = unsqueeze2d(out, factor=2)
UnsqueezeOut(st) ==
  IF ~st.ok THEN st
  ELSE IF CanUnsqueeze(st.out) THEN [st EXCEPT !.out = unsqueeze2d(st.out)]
  ELSE Fail(st, "unsqueeze")

\* out, logdet = block.<op>(out, s=s); logdet_accum = logdet_accum + logdet
AfterBlock(st, i, q) ==
  [st EXCEPT !.ok = q.ok, !.out = q.out, !.logdet = @ + q.logdet,
             !.trace = @ \o q.trace,
             !.calls = Append(@, [block |-> i, x |-> Height(st.out),
                                  xc |-> Channels(st.out),
                                  s |-> IF st.s.k = "tensor" THEN Height(st.s.t) ELSE 0,
                                  sc |-> IF st.s.k = "tensor" THEN Channels(st.s.t)
                                                              ELSE 0]),
             !.err = IF q.ok THEN "" ELSE "block"]

\* out1, out2 = split2d(out, block.z1_channels); outputs.append(out2); out = out1
SplitPush(st, i, z1_channels) ==
  IF ~st.ok THEN st
  ELSE LET parts == split2d(st.out, z1_channels)
       IN [st EXCEPT !.out = parts[1],
                     !.outputs = Append(@, [tag |-> i, t |-> parts[2]]),
                     !.pushed = Append(@, i)]

\* out2 = outputs.pop(); out = unsplit2d([out, out2])
PopUnsplit(st) ==
  IF ~st.ok THEN st
  ELSE IF Len(st.outputs) = 0 THEN Fail(st, "pop")
  ELSE LET top == st.outputs[Len(st.outputs)]
       IN IF ~CanUnsplit(<<st.out, top.t>>) THEN Fail(st, "unsplit")
          ELSE [st EXCEPT !.out = unsplit2d(<<st.out, top.t>>),
                          !.outputs = SubSeq(@, 1, Len(@) - 1),
                          !.popped = Append(@, top.tag)]

\* assert len(outputs) == 0
AssertEmpty(st) ==
  IF ~st.ok THEN st
  ELSE IF Len(st.outputs) = 0 THEN st ELSE Fail(st, "assert")

\* if isinstance(block, MaCowInternalBlock) or isinstance(block, MaCowTopBlock):
\* squeeze the conditioning, then the tensor
SqueezeFor(block, st) == IF Squeezing(block) THEN SqueezeOut(SqueezeS(st)) ELSE st

\* a variant of SplitFor that passes the whole tensor on
SplitForNone(block, i, st) == st

\* if isinstance(block, MaCowInternalBlock): split2d, outputs.append
SplitFor(block, i, st) ==
  IF block.kind = "internal" THEN SplitPush(st, i, block.z1_channels) ELSE st

\* out, logdet = block.forward(out, s=s)
CallBlockForward(m, p, i, st) ==
  IF st.ok THEN AfterBlock(st, i, BlockForward(m.blocks[i], p, st.out, st.s)) ELSE st

\* the first loop of MaCow.forward, from block i on
RECURSIVE ForwardBlocks(_, _, _, _)
ForwardBlocks(m, p, i, st) ==
  IF ~st.ok \/ i > Len(m.blocks) THEN st
  ELSE ForwardBlocks(m, p, i + 1,
         SplitFor(m.blocks[i], i,
                  CallBlockForward(m, p, i, SqueezeFor(m.blocks[i], st))))

\* for _ in range(self.internals): pop, unsplit, unsqueeze
RECURSIVE PopLoop(_, _)
PopLoop(n, st) ==
  IF ~st.ok \/ n = 0 THEN st
  ELSE PopLoop(n - 1, UnsqueezeOut(PopUnsplit(st)))

\* MaCow.forward
MaCowForward(m, p, input, s) ==
  AssertEmpty(PopLoop(m.internals,
                      UnsqueezeOut(ForwardBlocks(m, p, 1, Traversal(input, s)))))

\* the first loop of MaCow.backward: squeeze and split for every internal block
RECURSIVE BackwardSplits(_, _, _)
BackwardSplits(m, i, st) ==
  IF ~st.ok \/ i > Len(m.blocks) THEN st
  ELSE IF m.blocks[i].kind = "internal"
    THEN BackwardSplits(m, i + 1,
           SqueezeOut(SplitPush(SqueezeS(st), i, m.blocks[i].z1_channels)))
    ELSE BackwardSplits(m, i + 1, st)

\* a variant of PopFor that concatenates the popped slice in front
PopSwapped(block, st) ==
  IF block.kind # "internal" \/ ~st.ok THEN st
  ELSE IF Len(st.outputs) = 0 THEN Fail(st, "pop")
  ELSE IF ~CanUnsplit(<<st.outputs[Len(st.outputs)].t, st.out>>) THEN Fail(st, "unsplit")
  ELSE [st EXCEPT !.out = unsplit2d(<<st.outputs[Len(st.outputs)].t, st.out>>),
                  !.outputs = SubSeq(@, 1, Len(@) - 1),
                  !.popped = Append(@, st.outputs[Len(st.outputs)].tag)]

\* if isinstance(block, MaCowInternalBlock): outputs.pop, unsplit2d
PopFor(block, st) == IF block.kind = "internal" THEN PopUnsplit(st) ELSE st

\* out, logdet = block.backward(out, s=s)
CallBlockBackward(m, p, i, st) ==
  IF st.ok THEN AfterBlock(st, i, BlockBackward(m.blocks[i], p, st.out, st.s)) ELSE st

\* a variant of UnsqueezeFor that leaves the conditioning squeezed
UnsqueezeForOutOnly(block, st) ==
  IF st.ok /\ Squeezing(block) THEN UnsqueezeOut(st) ELSE st

\* if isinstance(block, MaCowInternalBlock) or isinstance(block, MaCowTopBlock):
\* unsqueeze the conditioning, then the tensor
UnsqueezeFor(block, st) ==
  IF st.ok /\ Squeezing(block) THEN UnsqueezeOut(UnsqueezeS(st)) ELSE st

\* the second loop of MaCow.backward, over the reversed blocks, from block i down
RECURSIVE BackwardBlocks(_, _, _, _)
BackwardBlocks(m, p, i, st) ==
  IF ~st.ok \/ i < 1 THEN st
  ELSE BackwardBlocks(m, p, i - 1,
         UnsqueezeFor(m.blocks[i],
                      CallBlockBackward(m, p, i, PopFor(m.blocks[i], st))))

\* MaCow.backward
MaCowBackward(m, p, input, s) ==
  AssertEmpty(BackwardBlocks(m, p, Len(m.blocks),
                BackwardSplits(m, 1, SqueezeOut(SqueezeS(Traversal(input, s))))))

\* the first loop of MaCow.init, from block i on
\* out, logdet = block.init(out, s=s, init_scale=init_scale)
CallBlockInit(m, p, i, st, init_scale) ==
  IF st.ok THEN AfterBlock(st, i, BlockInit(m.blocks[i], p, st.out, st.s, init_scale))
           ELSE st

RECURSIVE InitBlocks(_, _, _, _, _)
InitBlocks(m, p, i, st, init_scale) ==
  IF ~st.ok \/ i > Len(m.blocks) THEN st
  ELSE InitBlocks(m, p, i + 1,
         SplitFor(m.blocks[i], i,
                  CallBlockInit(m, p, i, SqueezeFor(m.blocks[i], st), init_scale)),
         init_scale)

\* MaCow.init
MaCowInit(m, p, data, s, init_scale) ==
  AssertEmpty(PopLoop(m.internals,
                      UnsqueezeOut(InitBlocks(m, p, 1, Traversal(data, s), init_scale))))

\* ------------------------------------------------------------------- Flow
\* A flow object is a MaCow pyramid (type "macow", its blocks in m) or a
\* Flow subclass written for the adapters' call, whose operations take the
\* tuple of conditional inputs and use its first member (type "plain", one
\* elementary bijection e).  A batch is a sequence of samples.

\* sample i of a conditioning argument over the batch
RECURSIVE RowCond(_, _)
RowCond(sarg, i) ==
  IF sarg.k = "none" THEN None
  ELSE IF sarg.k = "tensor" THEN T(sarg.t[i])
  ELSE Tuple(Seq0([j \in 1..Len(sarg.items) |-> RowCond(sarg.items[j], i)]))

\* the conditioning a "plain" flow takes from its second argument
PlainCond(sr) ==
  IF sr.k = "tuple" /\ Len(sr.items) > 0 THEN sr.items[1] ELSE None

\* self.forward / self.backward / self.init of the flow's class on one sample
RowOp(f, p, op, x, sr, init_scale) ==
  IF f.type = "macow"
    THEN CASE op = "forward" -> MaCowForward(f.m, p, x, sr)
           [] op = "backward" -> MaCowBackward(f.m, p, x, sr)
           [] OTHER -> MaCowInit(f.m, p, x, sr, init_scale)
    ELSE IF sr.k # "tuple" THEN Raise
    ELSE CASE op = "forward" -> ElemForward(f.e, p, x, PlainCond(sr))
           [] op = "backward" -> ElemBackward(f.e, p, x, PlainCond(sr))
           [] OTHER -> ElemInit(f.e, p, x, PlainCond(sr), init_scale)

\* one operation of the flow on a batch: every sample on its own
Batched(rows) ==
  [ok |-> \A i \in 1..Len(rows) : rows[i].ok,
   out |-> Seq0([i \in 1..Len(rows) |-> rows[i].out]),
   logdet |-> Seq0([i \in 1..Len(rows) |-> rows[i].logdet]),
   rows |-> rows]

FlowOp(f, p, op, xb, sarg, init_scale) ==
  Batched(Seq0([i \in 1..Len(xb) |->
                  RowOp(f, p, op, xb[i], RowCond(sarg, i), init_scale)]))

\* the record of one call of an adapter: its return value (ok, out, logdet),
\* whether it was rejected, and the log of the operations it invoked with the
\* conditioning and init_scale each received
Rejected ==
  [ok |-> FALSE, out |-> <<>>, logdet |-> <<>>, rows |-> <<>>, rejected |-> TRUE,
   log |-> <<>>]

\* a variant of Neg that leaves the log-determinant as it is
NotNeg(logdet) == logdet

\* logdet.mul(-1.0)
Neg(logdet) == Seq0([i \in 1..Len(logdet) |-> 0 - logdet[i]])

\* the adapter returns the output r of the one operation it invoked, with the
\* log-determinant as returned or negated
Invoked(op, xin, sarg, init_scale, r, negated) ==
  [ok |-> r.ok, out |-> r.out,
   logdet |-> IF negated THEN Neg(r.logdet) ELSE r.logdet,
   rows |-> r.rows, rejected |-> FALSE,
   log |-> <<[op |-> op, x |-> xin, s |-> sarg, init_scale |-> init_scale,
              ok |-> r.ok, out |-> r.out, logdet |-> r.logdet]>>]

\* a variant of fwdpass that initializes an inverse flow instead of rejecting
FwdPassLenient(f, p, x, h, init, init_scale) ==
  IF init
    THEN Invoked("init", x, Tuple(h), init_scale,
                 FlowOp(f, p, "init", x, Tuple(h), init_scale), TRUE)
    ELSE Invoked(IF f.inverse THEN "backward" ELSE "forward", x, Tuple(h), 0,
                 FlowOp(f, p, IF f.inverse THEN "backward" ELSE "forward", x, Tuple(h), 0),
                 TRUE)

\* Flow.fwdpass(x, *h, init, init_scale); h is the tuple of the extra arguments
FwdPass(f, p, x, h, init, init_scale) ==
  IF f.inverse
    THEN IF init
           THEN Rejected
           ELSE Invoked("backward", x, Tuple(h), 0,
                        FlowOp(f, p, "backward", x, Tuple(h), 0), TRUE)
    ELSE IF init
           THEN Invoked("init", x, Tuple(h), init_scale,
                        FlowOp(f, p, "init", x, Tuple(h), init_scale), TRUE)
           ELSE Invoked("forward", x, Tuple(h), 0,
                        FlowOp(f, p, "forward", x, Tuple(h), 0), TRUE)

\* a variant of bwdpass that negates the log-determinant as fwdpass does
BwdPassNegating(f, p, y, h, init, init_scale) ==
  IF f.inverse
    THEN IF init
           THEN Invoked("init", y, Tuple(h), init_scale,
                        FlowOp(f, p, "init", y, Tuple(h), init_scale), TRUE)
           ELSE Invoked("forward", y, Tuple(h), 0,
                        FlowOp(f, p, "forward", y, Tuple(h), 0), TRUE)
    ELSE IF init
           THEN Rejected
           ELSE Invoked("backward", y, Tuple(h), 0,
                        FlowOp(f, p, "backward", y, Tuple(h), 0), TRUE)

\* Flow.bwdpass(y, *h, init, init_scale)
BwdPass(f, p, y, h, init, init_scale) ==
  IF f.inverse
    THEN IF init
           THEN Invoked("init", y, Tuple(h), init_scale,
                        FlowOp(f, p, "init", y, Tuple(h), init_scale), FALSE)
           ELSE Invoked("forward", y, Tuple(h), 0,
                        FlowOp(f, p, "forward", y, Tuple(h), 0), FALSE)
    ELSE IF init
           THEN Rejected
           ELSE Invoked("backward", y, Tuple(h), 0,
                        FlowOp(f, p, "backward", y, Tuple(h), 0), FALSE)

\* ---------------------------------------------------------- FlowGenModel
\* A real number (c + l * log(2*pi)) / 2 with integers c and l is the record
\* [c, l]: the log-densities are computed exactly.
Whole(v) == [c |-> 2 * v, l |-> 0]
\* math.log(math.pi * 2.) * n
Log2Pi(n) == [c |-> 0, l |-> 2 * n]
Plus(a, b) == [c |-> a.c + b.c, l |-> a.l + b.l]
Minus(a, b) == [c |-> a.c - b.c, l |-> a.l - b.l]
\* a.mul(-0.5), of a whole-valued a
MulNegHalf(a) == [c |-> 0 - (a.c \div 2), l |-> 0 - (a.l \div 2)]

\* z.view(z.size(0), -1) of one sample: its elements in one sequence
Flatten(t) == t.v
\* z.mul(z).sum(dim=1) of one sample
SumSq(t) == SumSeq(Seq0([i \in 1..Len(Flatten(t)) |-> Flatten(t)[i] * Flatten(t)[i]]))
\* z.size(1) after the view
Numel(t) == Len(Flatten(t))

\* the standard normal log-density of one sample:
\* (z.mul(z).sum(dim=1) + math.log(math.pi * 2.) * z.size(1)).mul(-0.5)
LogNormal(t) == MulNegHalf(Plus(Whole(SumSq(t)), Log2Pi(Numel(t))))

\* a variant of encode that goes through fwdpass
EncodeViaFwdPass(f, p, x) == FwdPass(f, p, x, <<>>, FALSE, 1)

\* FlowGenModel.encode
Encode(f, p, x) == BwdPass(f, p, x, <<>>, FALSE, 1)

\* FlowGenModel.decode
Decode(f, p, z) == FwdPass(f, p, z, <<>>, FALSE, 1)

\* FlowGenModel.init
ModelInit(f, p, data, init_scale) == BwdPass(f, p, data, <<>>, TRUE, init_scale)

\* FlowGenModel.log_probability: the record of the encode call, with the
\* returned tensor of log-probabilities in value
\* a variant of log_probability that subtracts the log-determinant
LogProbabilityMinus(a) ==
  [a EXCEPT !.out = <<>>, !.logdet = <<>>] @@
  [value |-> IF a.ok
               THEN Seq0([i \in 1..Len(a.out) |->
                            Minus(LogNormal(a.out[i]), Whole(a.logdet[i]))])
               ELSE <<>>]

\* log_probs.mul(-0.5) + logdet, from the record a of the encode call
LogProbabilityOf(a) ==
  [a EXCEPT !.out = <<>>, !.logdet = <<>>] @@
  [value |-> IF a.ok
               THEN Seq0([i \in 1..Len(a.out) |->
                            Plus(LogNormal(a.out[i]), Whole(a.logdet[i]))])
               ELSE <<>>]

LogProbability(f, p, x) == LogProbabilityOf(Encode(f, p, x))

\* -------------------------------------------------- VDeQuantFlowGenModel
\* x.unsqueeze(1) + x.new_zeros(batch, nsamples, ...): [batch, nsamples, ...]
Broadcast(x, nsamples) == Seq0([i \in 1..Len(x) |-> Seq0([j \in 1..nsamples |-> x[i]])])

\* t.view(batch * nsamples, ...) of a [batch, nsamples, ...] tensor
ViewRows(t, nsamples) ==
  Seq0([r \in 1..(Len(t) * nsamples) |->
          t[((r - 1) \div nsamples) + 1][((r - 1) % nsamples) + 1]])

\* t.view(batch, nsamples, ...) of a [batch * nsamples, ...] tensor
ViewSamples(t, batch, nsamples) ==
  Seq0([i \in 1..batch |-> Seq0([j \in 1..nsamples |-> t[(i - 1) * nsamples + j]])])

\* a variant of Conditioning that tiles the batch nsamples times
ConditioningTiled(x, nsamples) ==
  Seq0([r \in 1..(Len(x) * nsamples) |-> x[((r - 1) % Len(x)) + 1]])

\* if nsamples > 1: x = x.unsqueeze(1) + zeros; x = x.view(epsilon.size())
Conditioning(x, nsamples) ==
  IF nsamples > 1 THEN ViewRows(Broadcast(x, nsamples), nsamples) ELSE x

\* log_posteriors = (...).mul(-0.5) - logdet, with logdet as fwdpass returned it
LogPosteriors(epsilon, logdet) ==
  Seq0([r \in 1..Len(epsilon) |-> Minus(LogNormal(epsilon[r]), Whole(logdet[r]))])

\* the pair dequantize returns, from the record a of the fwdpass call
DequantizeOf(a, batch, nsamples, epsilon) ==
  [a EXCEPT !.out = <<>>, !.logdet = <<>>] @@
  [u |-> IF a.ok THEN ViewSamples(a.out, batch, nsamples) ELSE <<>>,
   value |-> IF a.ok THEN ViewSamples(LogPosteriors(epsilon, a.logdet), batch, nsamples)
                     ELSE <<>>]

\* VDeQuantFlowGenModel.dequantize, with the noise epsilon torch.randn drew:
\* the record of the fwdpass call, with the returned pair in u and value
Dequantize(f, p, x, nsamples, epsilon) ==
  DequantizeOf(FwdPass(f, p, epsilon, <<T(Conditioning(x, nsamples))>>, FALSE, 1),
               Len(x), nsamples, epsilon)

\* the second statement of a method runs when the first returned: the record
\* of b, with the operations a invoked logged before those of b; when a raised,
\* the record of a, with no traversal of the flow of b
AndThen(a, b) ==
  IF a.ok THEN [b EXCEPT !.log = a.log \o @] ELSE [a EXCEPT !.rows = <<>>]

\* a variant of VDeQuantFlowGenModel.init that initializes the generative flow first
VDeQuantInitFlowFirst(f, dq, p, data, epsilon, init_scale) ==
  AndThen(BwdPass(f, p, data, <<>>, TRUE, init_scale),
          FwdPass(dq, p, epsilon, <<T(data)>>, TRUE, init_scale))

\* VDeQuantFlowGenModel.init, with the noise epsilon torch.randn drew:
\* self.dequant_flow.fwdpass(epsilon, data, init=True, init_scale=init_scale)
\* return self.flow.bwdpass(data, init=True, init_scale=init_scale)
VDeQuantInit(f, dq, p, data, epsilon, init_scale) ==
  AndThen(FwdPass(dq, p, epsilon, <<T(data)>>, TRUE, init_scale),
          BwdPass(f, p, data, <<>>, TRUE, init_scale))

\* ----------------------------------------------------------- the registry
\* Flow._registry is a dict from names to classes: a function on the names that
\* maps the names without an entry to Absent
Classes == {"Flow", "MaCow"}
Tags == {"macow", "glow", "nice"}
Absent == "absent"

\* _registry = dict()
EmptyRegistry == [tag \in Tags |-> Absent]

\* a variant of TableOf in which every class keeps a table of its own
TableOfOwn(cls) == cls

\* the class whose _registry attribute cls.register and cls.by_name use
TableOf(cls) == "Flow"

\* cls.register(name): Flow._registry[name] = cls
Register(reg, cls, name) == [reg EXCEPT ![TableOf(cls)][name] = cls]

\* cls.by_name(name): return Flow._registry[name], a KeyError without an entry
ByName(reg, cls, name) ==
  IF reg[TableOf(cls)][name] = Absent
    THEN [ok |-> FALSE, cls |-> Absent, err |-> "KeyError"]
    ELSE [ok |-> TRUE, cls |-> reg[TableOf(cls)][name], err |-> ""]

\* cls.from_params(params) of the class by_name returned: Flow's raises
\* NotImplementedError, MaCow's is MaCow(**params)
ClassFromParams(cls, cfg) ==
  IF cls = "MaCow"
    THEN IF MaCowNew(cfg).ok THEN [ok |-> TRUE, cls |-> cls, err |-> ""]
         ELSE [ok |-> FALSE, cls |-> cls, err |-> "AssertionError"]
    ELSE [ok |-> FALSE, cls |-> cls, err |-> "NotImplementedError"]

\* FlowGenModel.from_params: Flow.by_name(type).from_params(flow_params), then
\* FlowGenModel(flow), which asserts flow.inverse
FromParams(reg, type, cfg) ==
  LET found == ByName(reg, "Flow", type)
      built == ClassFromParams(found.cls, cfg)
  IN IF ~found.ok THEN found
     ELSE IF ~built.ok THEN built
     ELSE IF ~cfg.inverse THEN [ok |-> FALSE, cls |-> found.cls, err |-> "AssertionError"]
     ELSE built

\* ------------------------------------------------ configuration records
\* a dict is a function on its keys; a nested dict is held by reference, so the
\* caller's record is the top-level dict (params) and the dicts it refers to
MaxCalls == 2

\* d.pop(key): the value and the dict without the key, a KeyError without it
Pop(d, key) ==
  IF key \in DOMAIN d
    THEN [ok |-> TRUE, value |-> d[key], rest |-> [k \in DOMAIN d \ {key} |-> d[k]]]
    ELSE [ok |-> FALSE, value |-> Absent, rest |-> d]

\* how a from_params call ended, and the caller's record after it
Ended(ok, cls, err, rec) == [ok |-> ok, cls |-> cls, err |-> err, record |-> rec]

\* FlowGenModel.from_params(params): flow_params = params.pop('flow'),
\* Flow.by_name(flow_params.pop('type')).from_params(flow_params),
\* FlowGenModel(flow, **params)
FlowGenModelFromParams(reg, rec) ==
  LET flow_params == Pop(rec.params, "flow")
      type == Pop(rec.flow_params, "type")
      popped == [rec EXCEPT !.params = flow_params.rest, !.flow_params = type.rest]
  IN IF ~flow_params.ok THEN Ended(FALSE, Absent, "KeyError", rec)
     ELSE IF ~type.ok THEN Ended(FALSE, Absent, "KeyError", popped)
     ELSE LET made == FromParams(reg, type.value, type.rest)
          IN Ended(made.ok, made.cls, made.err, popped)

\* VDeQuantFlowGenModel.from_params(params): the flow as above, then
\* dequant_params = params.pop('dequant'), DeQuantFlow.from_params(dequant_params)
\* = DeQuantFlow(**dequant_params), which builds a MaCow with inverse=False, and
\* VDeQuantFlowGenModel(flow, dequant_flow, **params), which asserts flow.inverse
VDeQuantFlowGenModelFromParams(reg, rec) ==
  LET flow_params == Pop(rec.params, "flow")
      type == Pop(rec.flow_params, "type")
      popped == [rec EXCEPT !.params = flow_params.rest, !.flow_params = type.rest]
      found == ByName(reg, "Flow", type.value)
      built == ClassFromParams(found.cls, type.rest)
      dequant_params == Pop(flow_params.rest, "dequant")
      emptied == [popped EXCEPT !.params = dequant_params.rest]
  IN IF ~flow_params.ok THEN Ended(FALSE, Absent, "KeyError", rec)
     ELSE IF ~type.ok THEN Ended(FALSE, Absent, "KeyError", popped)
     ELSE IF ~found.ok THEN Ended(FALSE, Absent, found.err, popped)
     ELSE IF ~built.ok THEN Ended(FALSE, built.cls, built.err, popped)
     ELSE IF ~dequant_params.ok THEN Ended(FALSE, built.cls, "KeyError", popped)
     ELSE IF ~MaCowNew([rec.dequant_params EXCEPT !.inverse = FALSE]).ok
       THEN Ended(FALSE, built.cls, "AssertionError", emptied)
     ELSE IF ~type.rest.inverse THEN Ended(FALSE, built.cls, "AssertionError", emptied)
     ELSE Ended(TRUE, built.cls, "", emptied)

\* from_params of the model class the caller names
ModelFromParams(reg, model, rec) ==
  IF model = "VDeQuantFlowGenModel" THEN VDeQuantFlowGenModelFromParams(reg, rec)
  ELSE FlowGenModelFromParams(reg, rec)

\* the type the record names, when it still names one
TypeIn(rec) == IF "type" \in DOMAIN rec.flow_params THEN rec.flow_params.type ELSE ""

\* ------------------------------------------------------------------ sync
\* the sync of an elementary flow: one invocation on record
Sync(e) == <<[id |-> e.id, op |-> "sync"]>>

\* MaCowStep.sync: self.glow_step.sync()
MaCowStepSync(step) == Sync(step.glow_step)

\* for step in steps: step.sync(), from step k on
RECURSIVE StepsSync(_, _)
StepsSync(steps, k) ==
  IF k > Len(steps) THEN <<>>
  ELSE MaCowStepSync(steps[k]) \o StepsSync(steps, k + 1)

\* MaCowBottomBlock.sync / MaCowTopBlock.sync
MaCowPlainBlockSync(block) == StepsSync(block.steps, 1)

\* a variant of the loop of MaCowInternalBlock.sync that leaves the priors out
RECURSIVE InternalLayersSyncStepsOnly(_, _)
InternalLayersSyncStepsOnly(block, l) ==
  IF l > Min(Len(block.layers), Len(block.priors)) THEN <<>>
  ELSE StepsSync(block.layers[l], 1) \o InternalLayersSyncStepsOnly(block, l + 1)

\* for layer, prior in zip(self.layers, self.priors): the steps of the layer,
\* then the prior; from layer l on
RECURSIVE InternalLayersSync(_, _)
InternalLayersSync(block, l) ==
  IF l > Min(Len(block.layers), Len(block.priors)) THEN <<>>
  ELSE StepsSync(block.layers[l], 1) \o Sync(block.priors[l].e)
       \o InternalLayersSync(block, l + 1)

\* MaCowInternalBlock.sync
MaCowInternalBlockSync(block) == InternalLayersSync(block, 1)

\* block.sync() by the kind of the block
BlockSync(block) ==
  IF block.kind = "internal" THEN MaCowInternalBlockSync(block)
  ELSE MaCowPlainBlockSync(block)

\* for block in self.blocks: block.sync(), from block i on
RECURSIVE BlocksSync(_, _)
BlocksSync(blocks, i) ==
  IF i > Len(blocks) THEN <<>>
  ELSE BlockSync(blocks[i]) \o BlocksSync(blocks, i + 1)

\* MaCow.sync
MaCowSync(m) == [ok |-> TRUE, synced |-> BlocksSync(m.blocks, 1)]

\* FlowGenModel.sync: the wrapped flow, unwrapped from DataParallelFlow when
\* the model runs on several devices, is synced
FlowGenModelSync(f, parallel) ==
  LET wrapped == IF parallel THEN [flow |-> f] ELSE f
      unwrapped == IF parallel THEN wrapped.flow ELSE wrapped
  IN MaCowSync(unwrapped.m)

\* ------------------------------------------------- block construction
\* the channel counts, factors and layer counts internal blocks are built with
MaxChannels == 12
MaxFactor == 5

\* the block constructor's result before it has run
NoBlock == [ok |-> FALSE, kind |-> "none", in_channels |-> 0, steps |-> <<>>,
            layers |-> <<>>, priors |-> <<>>, z1_channels |-> 0]

\* no internal block is under construction
NotBuilt == [done |-> FALSE, in_channels |-> 0, factor |-> 0, num_layers |-> 0,
             macow_block |-> NoBlock]

\* the arguments of MaCowInternalBlock(num_steps, in_channels, ..., factor=factor):
\* num_steps has num_layers entries
BlockArguments ==
  {[done |-> FALSE, in_channels |-> c, factor |-> f, num_layers |-> n, macow_block |-> NoBlock] :
     c \in 1..MaxChannels, f \in 1..MaxFactor, n \in 0..MaxFactor}

\* ------------------------------------------------------------ the state
VARIABLES
  record,  \* the configuration record the caller holds: as written, as it is now, and the from_params calls made with it
  internal,  \* the arguments of an internal block under construction, and the block once built
  registry,    \* the _registry attribute of every class that has one
  registered,  \* the register calls made so far, in order
  lookup,      \* the record of the last by_name or from_params call
  flow,     \* the constructed flow: its class, inverse flag and configuration
  params,   \* its learned parameters: the seed of their values, and whether
            \* and with which init_scale a data-dependent init has run
  x,        \* the caller's input batch
  s,        \* the caller's conditioning over the batch (None or a tensor)
  first,    \* the record of the call made on x
  second    \* the record of the call made on the output of the first call

vars == <<record, internal, registry, registered, lookup, flow, params, x, s, first, second>>

\* ------------------------------------------------------- configurations
\* (factor, num_steps) of an internal level: one layer, or two layers
InternalChoices == {[factor |-> 2, num_steps |-> <<1>>], [factor |-> 3, num_steps |-> <<1, 1>>]}

Internals(levels, bottom) == IF bottom THEN levels - 2 ELSE levels - 1

\* the arguments of MaCow(...): the bottom block has one step, the top block two
Config(levels, bottom, ch, s_channels, inverse) ==
  [levels |-> levels, bottom |-> bottom, in_channels |-> 1, s_channels |-> s_channels,
   inverse |-> inverse, kernel_size |-> <<2, 3>>,
   hidden_channels |-> [i \in 1..levels |-> 4],
   factors |-> [i \in 1..Len(ch) |-> ch[i].factor],
   num_steps |-> (IF bottom THEN <<<<1>>>> ELSE <<>>)
                 \o [i \in 1..Len(ch) |-> ch[i].num_steps] \o <<<<2>>>>]

Configs ==
  UNION {{Config(levels, bottom, ch, sc, inv) :
            ch \in [1..Internals(levels, bottom) -> InternalChoices],
            sc \in {0, 1}, inv \in BOOLEAN} :
         levels \in 2..MaxLevels, bottom \in BOOLEAN}

\* one internal level whose factor exceeds its 4 channels, whose layers are as many
\* as its factor, or more than its factor
EdgeChoices ==
  {[factor |-> 5, num_steps |-> <<1>>], [factor |-> 2, num_steps |-> <<1, 1>>],
   [factor |-> 1, num_steps |-> <<1, 1>>]}

EdgeConfigs ==
  {Config(2, FALSE, <<ch>>, sc, inv) : ch \in EdgeChoices, sc \in {0, 1}, inv \in BOOLEAN}

\* arguments that miss one of the assertions of MaCow.__init__ each
Malformed ==
  LET two == Config(2, TRUE, <<>>, 0, FALSE)
      three == Config(3, TRUE, <<[factor |-> 2, num_steps |-> <<1>>]>>, 0, FALSE)
      open == Config(3, FALSE, <<[factor |-> 2, num_steps |-> <<1>>],
                                 [factor |-> 2, num_steps |-> <<1>>]>>, 0, FALSE)
  IN {Config(1, FALSE, <<>>, 0, FALSE),
      [two EXCEPT !.kernel_size = <<3>>],
      [two EXCEPT !.kernel_size = <<2, 3, 3>>],
      [two EXCEPT !.num_steps = <<<<1>>>>],
      [two EXCEPT !.num_steps = <<<<1>>, <<1>>, <<2>>>>],
      [two EXCEPT !.hidden_channels = <<4>>],
      [two EXCEPT !.hidden_channels = <<4, 4, 4>>],
      [two EXCEPT !.factors = <<2>>],
      [three EXCEPT !.factors = <<>>],
      [three EXCEPT !.factors = <<2, 2>>],
      [open EXCEPT !.factors = <<2>>],
      [open EXCEPT !.factors = <<2, 2, 2>>]}

\* the arguments callers give MaCow(...)
Attempted == Configs \cup EdgeConfigs \cup Malformed

\* the pyramids MaCow.__init__ constructs
Constructible == {cfg \in Attempted : MaCowNew(cfg).ok}

NoElem == Elem(1, 0, 0, FALSE)
NoConfig == Config(0, FALSE, <<>>, 0, FALSE)

\* a flow after its constructor ran: ok says whether the constructor returned
Flows ==
  {[type |-> "macow", inverse |-> cfg.inverse, cfg |-> cfg, e |-> NoElem,
    ok |-> MaCowNew(cfg).ok] : cfg \in Attempted}
  \cup
  {[type |-> "plain", inverse |-> inv, cfg |-> NoConfig, e |-> Elem(id, 1, sc, TRUE),
    ok |-> TRUE] : inv \in BOOLEAN, sc \in {0, 1}, id \in {0, 7}}

\* the flow object the operations run on
Obj(fl) ==
  [type |-> fl.type, inverse |-> fl.inverse, e |-> fl.e,
   m |-> IF fl.type = "macow" THEN MaCowNew(fl.cfg) ELSE <<>>]

\* ------------------------------------------------------------- inputs
Pow2(n) == 2 ^ n

\* the side of the smallest image the pyramid can squeeze at every level
Side(cfg) == Pow2(IF cfg.bottom THEN cfg.levels - 1 ELSE cfg.levels)

\* a tensor whose elements all differ (k = 0, 1: two such tensors)
Iota(k, C, H, W) ==
  Tensor(C, H, W, Seq0([i \in 1..(C * H * W) |-> (1 - 3 * k) * i]))

Inputs(fl) ==
  IF fl.type = "macow"
    THEN {[x |-> <<Iota(k, fl.cfg.in_channels, Side(fl.cfg), Side(fl.cfg))>>,
           s |-> IF fl.cfg.s_channels = 0 THEN None
                 ELSE T(<<Iota(1 - k, fl.cfg.s_channels, Side(fl.cfg), Side(fl.cfg))>>)] :
          k \in {0, 1}}
    ELSE {[x |-> Seq0([i \in 1..batch |-> Tensor(1, 1, 2, <<k * i, k * (i + 3)>>)]),
           s |-> IF fl.e.s_channels = 0 THEN None
                 ELSE T(Seq0([i \in 1..batch |-> Tensor(1, 1, 2, <<2 * i, 5 * i>>)]))] :
          batch \in 1..MaxBatch, k \in {0, 1}}

\* the noise torch.randn draws for rows samples shaped like like
Noise(rows, like) ==
  {Seq0([r \in 1..rows |->
           Tensor(like.c, like.h, like.w,
                  Seq0([i \in 1..Len(like.v) |-> 10 * r + k + i]))]) : k \in {0, 1}}

\* the extra arguments a caller who holds conditioning s gives an adapter
Given(cond) == IF cond.k = "none" THEN <<>> ELSE <<cond>>

\* --------------------------------------------------------------- calls
NoCall ==
  [api |-> "none", init |-> FALSE, init_scale |-> 0, x |-> <<>>, given |-> None,
   nsamples |-> 0, epsilon |-> <<>>, ok |-> FALSE, rejected |-> FALSE, out |-> <<>>,
   logdet |-> <<>>, rows |-> <<>>, log |-> <<>>, value |-> <<>>, u |-> <<>>,
   block |-> 0, slices |-> <<>>, synced |-> <<>>]

\* the record of a call of api with the given arguments that ended as r
Call(api, xin, given, init, init_scale, r) ==
  [k \in DOMAIN NoCall |->
     IF k \in DOMAIN r THEN r[k]
     ELSE IF k = "api" THEN api
     ELSE IF k = "x" THEN xin
     ELSE IF k = "given" THEN given
     ELSE IF k = "init" THEN init
     ELSE IF k = "init_scale" THEN init_scale
     ELSE NoCall[k]]

\* the parameters after a call: an invoked init recalibrates them
Calibrated(pr, c) ==
  IF c.ok /\ (c.api = "init" \/ \E i \in 1..Len(c.log) : c.log[i].op = "init")
    THEN [pr EXCEPT !.inited = TRUE, !.scale = c.init_scale]
    ELSE pr

\* the content of a record: its dict and the dicts it refers to
Content(rec) ==
  [params |-> rec.params, flow_params |-> rec.flow_params, dequant_params |-> rec.dequant_params]

\* the record of a model of class model over a flow of the given type and
\* arguments, as the caller writes it
RecordOf(model, type, cfg, options) ==
  LET written ==
        [params |-> options @@
                    (IF model = "VDeQuantFlowGenModel"
                       THEN [flow |-> "flow_params", dequant |-> "dequant_params"]
                       ELSE [flow |-> "flow_params"]),
         flow_params |-> [type |-> type] @@ cfg,
         dequant_params |-> IF model = "VDeQuantFlowGenModel"
                              THEN Config(2, TRUE, <<>>, 1, FALSE) ELSE <<>>]
  IN written @@ [model |-> model, given |-> written, calls |-> 0]

\* the caller holds no record
NoRecord ==
  [params |-> <<>>, flow_params |-> <<>>, dequant_params |-> <<>>, model |-> "",
   given |-> <<>>, calls |-> 0]

\* no by_name or from_params call yet
NoLookup == [api |-> "none", via |-> "", tag |-> "", ok |-> FALSE, cls |-> Absent, err |-> ""]

\* the registry when the module macow.flows.macow is loaded: MaCow.register('macow')
Loaded == Register([c \in Classes |-> EmptyRegistry], "MaCow", "macow")

Init ==
  /\ record = NoRecord
  /\ internal = NotBuilt
  /\ registry = Loaded
  /\ registered = <<[cls |-> "MaCow", tag |-> "macow"]>>
  /\ lookup = NoLookup
  /\ flow \in Flows
  /\ params \in {[seed |-> p, inited |-> FALSE, scale |-> 0] : p \in 0..MaxSeed}
  /\ \E i \in Inputs(flow) : x = i.x /\ s = i.s
  /\ first = NoCall
  /\ second = NoCall

\* ------------------------------------------------------------- actions
\* no operation runs on an object whose constructor raised
Constructed == flow.ok
Fresh == Constructed /\ first.api = "none"
Chained == first.ok /\ second.api = "none"

\* the init_scale arguments callers give
Scales == {1, 2}

\* flow.forward(x, s=s) on a pyramid
Forward ==
  /\ Fresh /\ flow.type = "macow"
  /\ first' = Call("forward", x, s, FALSE, 0,
                   FlowOp(Obj(flow), params.seed, "forward", x, s, 0))
  /\ UNCHANGED <<record, internal, registry, registered, lookup, flow, params, x, s, second>>

\* flow.backward(x, s=s) on a pyramid
Backward ==
  /\ Fresh /\ flow.type = "macow"
  /\ first' = Call("backward", x, s, FALSE, 0,
                   FlowOp(Obj(flow), params.seed, "backward", x, s, 0))
  /\ UNCHANGED <<record, internal, registry, registered, lookup, flow, params, x, s, second>>

\* flow.init(x, s=s, init_scale=sc) on a pyramid
InitOp ==
  /\ Fresh /\ flow.type = "macow"
  /\ \E sc \in Scales :
       first' = Call("init", x, s, TRUE, sc,
                     FlowOp(Obj(flow), params.seed, "init", x, s, sc))
  /\ params' = Calibrated(params, first')
  /\ UNCHANGED <<record, internal, registry, registered, lookup, flow, x, s, second>>

\* flow.backward(y, s=s) on the output y of forward or init
BackwardAfter ==
  /\ Chained /\ first.api \in {"forward", "init"}
  /\ second' = Call("backward", first.out, s, FALSE, 0,
                    FlowOp(Obj(flow), params.seed, "backward", first.out, s, 0))
  /\ UNCHANGED <<record, internal, registry, registered, lookup, flow, params, x, s, first>>

\* flow.forward(y, s=s) on the output y of backward
ForwardAfter ==
  /\ Chained /\ first.api = "backward"
  /\ second' = Call("forward", first.out, s, FALSE, 0,
                    FlowOp(Obj(flow), params.seed, "forward", first.out, s, 0))
  /\ UNCHANGED <<record, internal, registry, registered, lookup, flow, params, x, s, first>>

\* flow.fwdpass(x, [s], init=init, init_scale=sc)
CallFwdPass ==
  /\ Fresh
  /\ \E init \in BOOLEAN : \E sc \in (IF init THEN Scales ELSE {1}) :
       first' = Call("fwdpass", x, s, init, sc,
                     FwdPass(Obj(flow), params.seed, x, Given(s), init, sc))
  /\ params' = Calibrated(params, first')
  /\ UNCHANGED <<record, internal, registry, registered, lookup, flow, x, s, second>>

\* flow.bwdpass(x, [s], init=init, init_scale=sc)
CallBwdPass ==
  /\ Fresh
  /\ \E init \in BOOLEAN : \E sc \in (IF init THEN Scales ELSE {1}) :
       first' = Call("bwdpass", x, s, init, sc,
                     BwdPass(Obj(flow), params.seed, x, Given(s), init, sc))
  /\ params' = Calibrated(params, first')
  /\ UNCHANGED <<record, internal, registry, registered, lookup, flow, x, s, second>>

\* flow.bwdpass(y, [s]) on the output y of fwdpass
BwdPassAfter ==
  /\ Chained /\ first.api = "fwdpass"
  /\ second' = Call("bwdpass", first.out, s, FALSE, 1,
                    BwdPass(Obj(flow), params.seed, first.out, Given(s), FALSE, 1))
  /\ UNCHANGED <<record, internal, registry, registered, lookup, flow, params, x, s, first>>

\* flow.fwdpass(y, [s]) on the output y of bwdpass
FwdPassAfter ==
  /\ Chained /\ first.api = "bwdpass"
  /\ second' = Call("fwdpass", first.out, s, FALSE, 1,
                    FwdPass(Obj(flow), params.seed, first.out, Given(s), FALSE, 1))
  /\ UNCHANGED <<record, internal, registry, registered, lookup, flow, params, x, s, first>>

\* FlowGenModel(flow) asserts flow.inverse
IsGenModel == flow.inverse

\* FlowGenModel(flow).encode(x)
DoEncode ==
  /\ Fresh /\ IsGenModel
  /\ first' = Call("encode", x, None, FALSE, 1, Encode(Obj(flow), params.seed, x))
  /\ UNCHANGED <<record, internal, registry, registered, lookup, flow, params, x, s, second>>

\* FlowGenModel(flow).decode(x)
DoDecode ==
  /\ Fresh /\ IsGenModel
  /\ first' = Call("decode", x, None, FALSE, 1, Decode(Obj(flow), params.seed, x))
  /\ UNCHANGED <<record, internal, registry, registered, lookup, flow, params, x, s, second>>

\* FlowGenModel(flow).decode(z) on the output z of encode
DoDecodeAfter ==
  /\ Chained /\ first.api = "encode"
  /\ second' = Call("decode", first.out, None, FALSE, 1,
                    Decode(Obj(flow), params.seed, first.out))
  /\ UNCHANGED <<record, internal, registry, registered, lookup, flow, params, x, s, first>>

\* FlowGenModel(flow).init(x, init_scale=sc)
DoModelInit ==
  /\ Fresh /\ IsGenModel
  /\ \E sc \in Scales :
       first' = Call("model_init", x, None, TRUE, sc,
                     ModelInit(Obj(flow), params.seed, x, sc))
  /\ params' = Calibrated(params, first')
  /\ UNCHANGED <<record, internal, registry, registered, lookup, flow, x, s, second>>

\* FlowGenModel(flow).log_probability(x)
DoLogProbability ==
  /\ Fresh /\ IsGenModel
  /\ first' = Call("log_probability", x, None, FALSE, 1,
                   LogProbability(Obj(flow), params.seed, x))
  /\ UNCHANGED <<record, internal, registry, registered, lookup, flow, params, x, s, second>>

\* VDeQuantFlowGenModel(_, dequant_flow=flow) asserts not flow.inverse
IsDequantFlow == ~flow.inverse

\* VDeQuantFlowGenModel.dequantize(x, nsamples)
DoDequantize ==
  /\ Fresh /\ IsDequantFlow
  /\ \E nsamples \in 1..MaxSamples : \E epsilon \in Noise(Len(x) * nsamples, x[1]) :
       first' = [Call("dequantize", x, T(x), FALSE, 1,
                      Dequantize(Obj(flow), params.seed, x, nsamples, epsilon))
                 EXCEPT !.nsamples = nsamples, !.epsilon = epsilon]
  /\ UNCHANGED <<record, internal, registry, registered, lookup, flow, params, x, s, second>>

\* the conditioning cond after n calls of squeeze2d
RECURSIVE SqueezedTimes(_, _)
SqueezedTimes(cond, n) ==
  IF n = 0 \/ cond.k # "tensor" THEN cond
  ELSE SqueezedTimes(T(Seq0([i \in 1..Len(cond.t) |-> squeeze2d(cond.t[i])])), n - 1)

\* a tensor of the shape block i of the pyramid takes, made of elements of x
BlockInput(cfg, m, i, xin) ==
  LET side == Side(cfg) \div Pow2(IF cfg.bottom THEN i - 1 ELSE i)
  IN Tensor(m.blocks[i].in_channels, side, side,
            SubSeq(xin.v, 1, m.blocks[i].in_channels * side * side))

\* the record of an operation of block i on one tensor that ended as r
BlockRecord(i, r) ==
  [ok |-> r.ok, out |-> <<r.out>>, logdet |-> <<r.logdet>>, block |-> i,
   slices |-> IF r.ok /\ "slices" \in DOMAIN r THEN r.slices ELSE <<>>]

\* the internal blocks of the constructed pyramid
InternalBlocks ==
  IF flow.type = "macow"
    THEN {i \in 1..Len(Obj(flow).m.blocks) : Obj(flow).m.blocks[i].kind = "internal"}
    ELSE {}

\* block.forward(input, s=s) on an internal block of the pyramid
DoBlockForward ==
  /\ Fresh
  /\ \E i \in InternalBlocks :
       LET input == BlockInput(flow.cfg, Obj(flow).m, i, x[1])
           cond == SqueezedTimes(s, IF flow.cfg.bottom THEN i - 1 ELSE i)
       IN first' = Call("block_forward", <<input>>, cond, FALSE, 0,
                        BlockRecord(i, MaCowInternalBlockForward(
                                         Obj(flow).m.blocks[i], params.seed, input,
                                         RowCond(cond, 1))))
  /\ UNCHANGED <<record, internal, registry, registered, lookup, flow, params, x, s, second>>

\* flow.sync() on a pyramid
DoSync ==
  /\ Fresh /\ flow.type = "macow"
  /\ first' = Call("sync", <<>>, None, FALSE, 0, MaCowSync(Obj(flow).m))
  /\ UNCHANGED <<record, internal, registry, registered, lookup, flow, params, x, s, second>>

\* FlowGenModel(flow, ngpu=ngpu).sync() on a wrapped pyramid
DoModelSync ==
  /\ Fresh /\ IsGenModel /\ flow.type = "macow"
  /\ \E parallel \in BOOLEAN :
       first' = Call("model_sync", <<>>, None, FALSE, 0,
                     FlowGenModelSync(Obj(flow), parallel))
  /\ UNCHANGED <<record, internal, registry, registered, lookup, flow, params, x, s, second>>

\* block.backward(y, s=s) on the output y of block.forward
DoBlockBackwardAfter ==
  /\ Chained /\ first.api = "block_forward"
  /\ second' = Call("block_backward", first.out, first.given, FALSE, 0,
                    BlockRecord(first.block, MaCowInternalBlockBackward(
                                               Obj(flow).m.blocks[first.block],
                                               params.seed, first.out[1],
                                               RowCond(first.given, 1))))
  /\ UNCHANGED <<record, internal, registry, registered, lookup, flow, params, x, s, first>>

\* the dequantization flows a model over flow fl is built with: a flow written
\* for the adapters' call, or a pyramid of the same levels conditioned on the data
DequantFlowsFor(fl) ==
  {d \in Flows :
     /\ d.ok /\ ~d.inverse
     /\ \/ d.type = "plain"
        \/ fl.type = "macow" /\ d.cfg = [fl.cfg EXCEPT !.inverse = FALSE, !.s_channels = 1]}

\* VDeQuantFlowGenModel(flow, dequant_flow).init(x, init_scale=sc)
DoVDeQuantInit ==
  /\ Fresh /\ IsGenModel
  /\ \E dq \in DequantFlowsFor(flow) : \E sc \in Scales : \E epsilon \in Noise(Len(x), x[1]) :
       first' = [Call("vdequant_init", x, None, TRUE, sc,
                      VDeQuantInit(Obj(flow), Obj(dq), params.seed, x, epsilon, sc))
                 EXCEPT !.epsilon = epsilon]
  /\ params' = Calibrated(params, first')
  /\ UNCHANGED <<record, internal, registry, registered, lookup, flow, x, s, second>>

Next ==
  \/ Forward
  \/ Backward
  \/ InitOp
  \/ BackwardAfter
  \/ ForwardAfter
  \/ CallFwdPass
  \/ CallBwdPass
  \/ BwdPassAfter
  \/ FwdPassAfter
  \/ DoEncode
  \/ DoDecode
  \/ DoDecodeAfter
  \/ DoModelInit
  \/ DoLogProbability
  \/ DoDequantize
  \/ DoVDeQuantInit
  \/ DoBlockForward
  \/ DoBlockBackwardAfter
  \/ DoSync
  \/ DoModelSync

Spec == Init /\ [][Next]_vars

\* ------------------------------------------------ the registry's clients
\* the flow arguments from_params is given: of a pyramid to decode with, of a
\* pyramid without the inverse flag, of a pyramid MaCow.__init__ refuses
ParamsGiven ==
  {Config(2, TRUE, <<>>, 0, TRUE), Config(2, TRUE, <<>>, 0, FALSE),
   Config(1, FALSE, <<>>, 0, TRUE)}

\* no flow was constructed and no call made on one
NoFlow == [type |-> "plain", inverse |-> FALSE, cfg |-> NoConfig, e |-> NoElem, ok |-> FALSE]

\* class Flow is created: _registry = dict()
RegistryInit ==
  /\ record = NoRecord
  /\ internal = NotBuilt
  /\ registry = [c \in Classes |-> EmptyRegistry]
  /\ registered = <<>>
  /\ lookup = NoLookup
  /\ flow = NoFlow
  /\ params = [seed |-> 0, inited |-> FALSE, scale |-> 0]
  /\ x = <<>>
  /\ s = None
  /\ first = NoCall
  /\ second = NoCall

\* cls.register(tag)
DoRegister ==
  /\ Len(registered) < MaxRegisters
  /\ \E cls \in Classes : \E tag \in Tags :
       /\ registry' = Register(registry, cls, tag)
       /\ registered' = Append(registered, [cls |-> cls, tag |-> tag])
  /\ lookup' = NoLookup
  /\ UNCHANGED <<record, internal, flow, params, x, s, first, second>>

\* via.by_name(tag)
DoByName ==
  /\ \E via \in Classes : \E tag \in Tags :
       lookup' = [api |-> "by_name", via |-> via, tag |-> tag] @@ ByName(registry, via, tag)
  /\ UNCHANGED <<record, internal, registry, registered, flow, params, x, s, first, second>>

\* FlowGenModel.from_params({'flow': {'type': tag, ...}}) on a record written
\* in the call, which the caller does not hold
DoFromParams ==
  /\ \E tag \in Tags : \E cfg \in ParamsGiven :
       lookup' = [api |-> "from_params", via |-> "Flow", tag |-> tag]
                   @@ FromParams(registry, tag, cfg)
  /\ UNCHANGED <<record, internal, registry, registered, flow, params, x, s, first, second>>

RegistryNext ==
  \/ DoRegister
  \/ DoByName
  \/ DoFromParams

RegistrySpec == RegistryInit /\ [][RegistryNext]_vars

\* --------------------------------------------------------- properties
Pyramid == flow.type = "macow"

\* the calls on record
Calls == {first, second}

\* a call of the pyramid's own operation, of an adapter, of a wrapper method
Direct(c) == c.api \in {"forward", "backward", "init"}
Adapter(c) == c.api \in {"fwdpass", "bwdpass"}
Wrapper(c) == c.api \in {"encode", "decode", "model_init", "log_probability"}

\* the internal levels of the configuration
InternalLevels == IF flow.cfg.bottom THEN flow.cfg.levels - 2 ELSE flow.cfg.levels - 1

\* C1: on every constructible pyramid, with or without a bottom level and with
\* zero or more internal levels, forward succeeds on every input x and
\* conditioning s, and backward on its output with the same s returns a tensor
\* of the shape of x that equals x element for element.
BackwardInvertsForward ==
  Pyramid =>
    /\ first.api = "forward" => first.ok
    /\ (first.api = "forward" /\ second.api = "backward") =>
         (second.ok /\ second.out = x)

\* a round trip through two internal levels, with conditioning
BackwardInvertsForwardReached ==
  /\ Pyramid /\ flow.cfg.levels = 3 /\ ~flow.cfg.bottom /\ s.k = "tensor"
  /\ first.api = "forward" /\ second.api = "backward"
  /\ second.ok /\ second.out = x /\ first.out # x

\* the split-state stack of one traversal t
StackBalanced(c, t) ==
  /\ t.err \notin {"pop", "assert"}
  /\ Len(t.popped) <= Len(t.pushed)
  /\ \A k \in 1..Len(t.popped) : t.popped[k] = t.pushed[Len(t.pushed) + 1 - k]
  /\ Direct(c) => t.ok
  /\ t.ok => /\ Len(t.pushed) = InternalLevels
             /\ Len(t.popped) = Len(t.pushed)
             /\ t.outputs = <<>>

\* C2: in every traversal of a constructed pyramid (forward, backward, init)
\* the number of slices pushed equals the number of internal levels (levels - 2
\* with a bottom level, levels - 1 without), they are popped last-in-first-out,
\* nothing is popped from an empty stack, and the stack is empty at the end, so
\* the final assertion does not fail.
SplitStackBalanced ==
  Pyramid => \A c \in Calls : \A i \in 1..Len(c.rows) : StackBalanced(c, c.rows[i])

\* forward, then backward, each pushing the slices of two internal levels and
\* popping them in the reverse order
SplitStackBalancedReached ==
  /\ Pyramid /\ InternalLevels = 2
  /\ first.api = "forward" /\ second.api = "backward"
  /\ first.rows[1].pushed = <<1, 2>> /\ first.rows[1].popped = <<2, 1>>
  /\ second.ok /\ second.rows[1].pushed = <<1, 2>> /\ second.rows[1].popped = <<2, 1>>

\* init=True on the adapter the inverse flag forbids it on
Misuse(c) ==
  c.init /\ ((c.api = "fwdpass" /\ flow.inverse) \/ (c.api = "bwdpass" /\ ~flow.inverse))

\* the operation the adapter is to invoke
Expected(c) ==
  IF c.api = "fwdpass"
    THEN IF flow.inverse THEN "backward" ELSE IF c.init THEN "init" ELSE "forward"
    ELSE IF ~flow.inverse THEN "backward" ELSE IF c.init THEN "init" ELSE "forward"

AdapterDispatches(c) ==
  /\ ~c.rejected
  /\ Len(c.log) = 1
  /\ c.log[1].op = Expected(c)
  /\ c.log[1].x = c.x
  /\ c.ok = c.log[1].ok
  /\ c.ok =>
       /\ c.out = c.log[1].out
       /\ c.api = "bwdpass" => c.logdet = c.log[1].logdet
       /\ (c.api = "fwdpass" /\ ~flow.inverse) =>
            /\ Len(c.logdet) = Len(c.log[1].logdet)
            /\ \A i \in 1..Len(c.logdet) : c.logdet[i] = 0 - c.log[1].logdet[i]

\* C3: for every combination of inverse flag and init that is not rejected, an
\* adapter invokes exactly one operation, once, on its input: fwdpass invokes
\* forward or init (inverse=false) or backward (inverse=true), bwdpass invokes
\* forward or init (inverse=true) or backward (inverse=false); fwdpass with
\* inverse=false returns the operation's output with its log-determinant
\* negated, bwdpass returns the log-determinant unmodified.
AdapterDispatchTable ==
  \A c \in Calls : (Adapter(c) /\ ~Misuse(c)) => AdapterDispatches(c)

\* fwdpass on a forward flow returned a negated, non-zero log-determinant and
\* bwdpass on its output returned
AdapterDispatchTableReached ==
  /\ ~flow.inverse
  /\ first.api = "fwdpass" /\ ~first.init /\ first.ok /\ first.logdet[1] # 0
  /\ first.log[1].op = "forward" /\ first.logdet[1] = 0 - first.log[1].logdet[1]
  /\ second.api = "bwdpass" /\ second.ok /\ second.log[1].op = "backward"

\* C4: fwdpass with init=true on an inverse flow, and bwdpass with init=true
\* on a flow that is not inverse, raise before forward, backward or init is
\* invoked, and leave the parameters and the inverse flag of the flow as they
\* were.
MisuseRejected ==
  [][(first.api = "none" /\ Adapter(first') /\ Misuse(first')) =>
       /\ first'.rejected /\ ~first'.ok
       /\ first'.log = <<>> /\ first'.rows = <<>>
       /\ params' = params
       /\ flow' = flow]_vars

\* fwdpass(x, init=True) on an inverse pyramid was rejected
MisuseRejectedReached ==
  /\ Pyramid /\ flow.inverse
  /\ first.api = "fwdpass" /\ first.init /\ first.rejected /\ first.log = <<>>
  /\ ~params.inited

\* C5: the conditioning given to an adapter reaches the operation as the same
\* value: a tensor s as s itself, no conditioning as None; and encode, decode
\* and init on a pyramid without conditioning never attempt to squeeze a
\* conditioning signal.
ConditioningReachesOperation ==
  \A c \in Calls :
    ((Adapter(c) \/ Wrapper(c)) /\ ~c.rejected) =>
      /\ c.log[1].s = c.given
      /\ (Pyramid /\ c.given = None) => \A i \in 1..Len(c.rows) : c.rows[i].ssq = 0

\* the elementary flows of a unit, a step, a block, the pyramid
UnitElems(u) ==
  {u.actnorm1.id, u.conv1.id, u.conv2.id, u.actnorm2.id, u.conv3.id, u.conv4.id}
StepElems(step) ==
  UNION {UnitElems(step.units[k]) : k \in 1..Len(step.units)} \cup {step.glow_step.id}
StepsElems(steps) == UNION {StepElems(steps[k]) : k \in 1..Len(steps)}
BlockElems(block) ==
  StepsElems(block.steps)
  \cup UNION {StepsElems(block.layers[k]) : k \in 1..Len(block.layers)}
  \cup {block.priors[k].e.id : k \in 1..Len(block.priors)}
PyramidElems(m) == UNION {BlockElems(m.blocks[k]) : k \in 1..Len(m.blocks)}

\* the returned log-determinant of traversal t is the sum over the sub-flows,
\* each invoked once
SumOfSubFlows(t) ==
  /\ t.logdet = SumSeq(Seq0([k \in 1..Len(t.trace) |-> t.trace[k].logdet]))
  /\ {t.trace[k].id : k \in 1..Len(t.trace)} = PyramidElems(Obj(flow).m)
  /\ Len(t.trace) = Cardinality(PyramidElems(Obj(flow).m))

\* C6: the log-determinant the pyramid returns is the plain sum of the
\* log-determinants of all its sub-flows, each counted once; and, the
\* elementary flows' backward log-determinants being the negations of their
\* forward ones, backward(forward(x, s), s) returns the negation of the
\* log-determinant forward(x, s) returned.
LogdetIsSumOfSubFlows ==
  Pyramid =>
    /\ \A c \in Calls : \A i \in 1..Len(c.rows) :
         c.rows[i].ok => (SumOfSubFlows(c.rows[i]) /\ c.logdet[i] = c.rows[i].logdet)
    /\ (first.api = "forward" /\ second.api = "backward" /\ second.ok) =>
         \A i \in 1..Len(x) : second.logdet[i] = 0 - first.logdet[i]

\* a round trip through an internal block of two layers with a non-zero
\* log-determinant
LogdetIsSumOfSubFlowsReached ==
  /\ Pyramid /\ Constructed /\ InternalLevels >= 1 /\ flow.cfg.factors[1] = 3
  /\ first.api = "forward" /\ second.api = "backward" /\ second.ok
  /\ first.logdet[1] # 0 /\ second.logdet[1] = 0 - first.logdet[1]
  /\ Len(first.rows[1].trace) > 13

\* the outcome of call c is the outcome r
SameOutcome(c, r) ==
  c.ok = r.ok /\ c.out = r.out /\ c.logdet = r.logdet /\ c.log = r.log

\* C7 as stated: encode goes through bwdpass and decode through fwdpass, and
\* the flow's forward is the operation decode executes, its backward the one
\* encode executes.
DecodeRunsForward ==
  /\ first.api = "encode" => first.log[1].op = "backward"
  /\ first.api = "decode" => first.log[1].op = "forward"

\* C7: in the generative model wrapper, whose flow has inverse=true, encode(x)
\* is computed through bwdpass and decode(z) through fwdpass; the flow's
\* forward is the operation encode executes and its backward the one decode
\* executes.
EncodeRunsForward ==
  /\ first.api = "encode" =>
       /\ SameOutcome(first, BwdPass(Obj(flow), params.seed, x, <<>>, FALSE, 1))
       /\ first.log[1].op = "forward"
  /\ first.api = "decode" =>
       /\ SameOutcome(first, FwdPass(Obj(flow), params.seed, x, <<>>, FALSE, 1))
       /\ first.log[1].op = "backward"

\* encode returned the output of the flow's forward
EncodeRunsForwardReached ==
  /\ flow.inverse /\ first.api = "encode" /\ first.ok
  /\ first.log[1].op = "forward" /\ first.out = first.log[1].out /\ first.out # x

\* the value of log_probability against the pair a that encode returns
LogProbabilityAgrees(c, a) ==
  /\ Len(c.value) = Len(a.out)
  /\ \A i \in 1..Len(a.out) :
       /\ c.value[i].c = 2 * a.logdet[i] - SumSq(a.out[i])
       /\ c.value[i].l = 0 - Len(a.out[i].v)
       /\ (a.out[i] = c.x[i] /\ a.logdet[i] = 0 /\ \A k \in 1..Len(c.x[i].v) : c.x[i].v[k] = 0)
            => c.value[i] = [c |-> 0, l |-> 0 - Len(c.x[i].v)]

\* C8: log_probability(x) returns, for each sample, -1/2 * (the sum of squares
\* of the flattened latent z + d * log(2*pi)) plus the log-determinant of
\* (z, logdet) = encode(x), d the flattened dimensionality; with encode the
\* identity, logdet = 0 and x all zeros it is the standard normal log-density
\* of the zero vector of dimension d.  (A value [c, l] is (c + l*log(2*pi))/2.)
LogProbabilityIsNormalPlusLogdet ==
  (first.api = "log_probability" /\ first.ok) =>
    LogProbabilityAgrees(first, Encode(Obj(flow), params.seed, x))

\* log_probability of a batch of two samples with a non-zero log-determinant
LogProbabilityIsNormalPlusLogdetReached ==
  /\ first.api = "log_probability" /\ first.ok /\ Len(x) = 2
  /\ first.log[1].logdet[1] # 0 /\ SumSq(first.log[1].out[1]) # 0
  /\ first.value[1].c = 2 * first.log[1].logdet[1] - SumSq(first.log[1].out[1])

\* row (i - 1) * nsamples + j of the flattened batch
Row(c, i, j) == (i - 1) * c.nsamples + j

\* C9: dequantize returns as log_posterior the log-density of the noise u: the
\* standard normal log-density of epsilon minus the log-determinant of the
\* Jacobian of u with respect to epsilon that the flow's forward accumulated.
LogPosteriorIsDensityOfNoise ==
  (first.api = "dequantize" /\ first.ok) =>
    \A i \in 1..Len(x) : \A j \in 1..first.nsamples :
      /\ first.value[i][j].c = 0 - SumSq(first.epsilon[Row(first, i, j)])
                                 - 2 * first.log[1].logdet[Row(first, i, j)]
      /\ first.value[i][j].l = 0 - Len(first.epsilon[Row(first, i, j)].v)

\* the rows the flow was invoked on and the values returned for them
RowsPaired(c) ==
  /\ Len(c.log[1].x) = Len(c.x) * c.nsamples
  /\ c.log[1].x = c.epsilon
  /\ Len(c.log[1].s.items[1].t) = Len(c.x) * c.nsamples
  /\ \A i \in 1..Len(c.x) : \A j \in 1..c.nsamples :
       /\ c.log[1].s.items[1].t[Row(c, i, j)] = c.x[i]
       /\ c.ok =>
            /\ c.u[i][j] = c.log[1].out[Row(c, i, j)]
            /\ c.value[i][j].c + SumSq(c.epsilon[Row(c, i, j)])
                 \in {2 * c.log[1].logdet[Row(c, i, j)],
                      0 - 2 * c.log[1].logdet[Row(c, i, j)]}

\* C10: dequantize with batch size B and nsamples >= 1 invokes the flow on
\* B * nsamples rows, row i * nsamples + j (from 0) carrying noise draw j
\* conditioned on image i, and u[i][j] and log_posterior[i][j] are the flow's
\* outputs for that row.
DequantizeRowsPaired ==
  first.api = "dequantize" => RowsPaired(first)

\* two images, two noise draws each, through a flow that uses the conditioning
DequantizeRowsPairedReached ==
  /\ first.api = "dequantize" /\ first.ok /\ Len(x) = 2 /\ first.nsamples = 2
  /\ x[1] # x[2] /\ flow.e.s_channels = 1
  /\ first.u[2][1] = first.log[1].out[3] /\ first.u[1][2] # first.u[2][1]

\* ------------------------------------------------ construction properties
\* the assertions MaCow.__init__ makes on the lengths of its arguments
WellFormed(cfg) ==
  /\ cfg.levels > 1
  /\ Len(cfg.kernel_size) = 2
  /\ Len(cfg.num_steps) = cfg.levels
  /\ Len(cfg.hidden_channels) = cfg.levels
  /\ Len(cfg.factors) = Internals(cfg.levels, cfg.bottom)

\* the position among the blocks of the j-th internal level
InternalAt(cfg, j) == IF cfg.bottom THEN j + 1 ELSE j

\* the channel counts an internal block retains: its input's, then the count
\* left after each layer
Retained(b) == <<b.in_channels>> \o [k \in 1..Len(b.priors) |-> b.priors[k].z1_channels]

\* the counts of block b fall by in_channels // factor at every layer and stay positive
StrictlyDecreasing(b, factor) ==
  \A k \in 1..Len(b.layers) :
    /\ Retained(b)[k + 1] = Retained(b)[k] - (b.in_channels \div factor)
    /\ Retained(b)[k + 1] > 0
    /\ Retained(b)[k + 1] < Retained(b)[k]

\* C11: every internal block constructed with in_channels C, factor f and n
\* layers, 1 <= n < f, retains after each layer a channel count (the previous
\* one minus C // f) that is positive and strictly smaller than before the
\* layer; a block with n >= f is rejected at construction.
RetainedStrictlyDecreasing ==
  (Pyramid /\ WellFormed(flow.cfg)) =>
    \A j \in 1..InternalLevels :
      LET f == flow.cfg.factors[j]
          n == Len(flow.cfg.num_steps[InternalAt(flow.cfg, j)])
      IN /\ ~(n < f) => ~Constructed
         /\ (Constructed /\ 1 <= n) =>
              StrictlyDecreasing(Obj(flow).m.blocks[InternalAt(flow.cfg, j)], f)

\* the records of the invocations of block i in traversal t
BlockCalls(t, i) == {c \in {t.calls[k] : k \in 1..Len(t.calls)} : c.block = i}

\* the traversals of the pyramid's own operations on record
Traversals == UNION {{c.rows[i] : i \in 1..Len(c.rows)} : c \in {d \in Calls : Direct(d)}}

\* the channels leaving the level before the top one: those the last internal
\* block retains, or the pyramid's own when no internal level precedes the top
BelowTop(cfg, m) ==
  IF Internals(cfg.levels, cfg.bottom) = 0 THEN cfg.in_channels
  ELSE m.blocks[Len(m.blocks) - 1].z1_channels

\* C12 as stated: the tensor entering the top block of every constructed
\* pyramid has in_channels * 4^(levels-1) channels.
TopChannelsArePowerOfFour ==
  Pyramid =>
    \A t \in Traversals : \A c \in BlockCalls(t, flow.cfg.levels) :
      c.xc = flow.cfg.in_channels * 4 ^ (flow.cfg.levels - 1)

\* C12, amended: the tensor entering the top block has 4 times the channels
\* leaving the level before it (z1_channels of the last internal block, or
\* in_channels when no internal level precedes the top), which is
\* in_channels * 4^(levels-1) for a pyramid of two levels with a bottom level.
TopChannelsAreFourTimesRetained ==
  Pyramid =>
    \A t \in Traversals :
      /\ t.ok => BlockCalls(t, flow.cfg.levels) # {}
      /\ \A c \in BlockCalls(t, flow.cfg.levels) :
           /\ c.xc = 4 * BelowTop(flow.cfg, Obj(flow).m)
           /\ (flow.cfg.levels = 2 /\ flow.cfg.bottom) =>
                c.xc = flow.cfg.in_channels * 4 ^ (flow.cfg.levels - 1)

\* a forward pass through a pyramid of two internal levels, the first of two layers
TopChannelsAreFourTimesRetainedReached ==
  /\ Pyramid /\ Constructed /\ InternalLevels = 2 /\ flow.cfg.factors[1] = 3
  /\ first.api = "forward" /\ first.ok
  /\ \E c \in BlockCalls(first.rows[1], flow.cfg.levels) :
       c.xc = 4 * BelowTop(flow.cfg, Obj(flow).m)

\* the errors of a traversal that come from the levels not matching the
\* blocks: a pop from the empty list, slices left over, a slice or a tensor of
\* the wrong channels
Misconfigured(t) == t.err \in {"pop", "assert", "unsplit", "block"}

\* C13: MaCow.__init__ fails, and no pass runs, when levels < 2, when
\* kernel_size has not exactly two entries, when num_steps or hidden_channels
\* is not as long as levels, or when the factors are not as many as the internal
\* levels (levels-2 with a bottom level, levels-1 without); a pyramid that was
\* constructed runs every traversal without an error of misconfiguration.
ConstructionRejectsEagerly ==
  Pyramid =>
    /\ ~WellFormed(flow.cfg) => (~Constructed /\ first = NoCall /\ second = NoCall)
    /\ Constructed => \A t \in Traversals : t.ok /\ ~Misconfigured(t)

\* a pyramid with a bottom level that is given levels-1 factors is refused
ConstructionRejectsEagerlyReached ==
  /\ Pyramid /\ flow.cfg.levels = 3 /\ flow.cfg.bottom /\ Len(flow.cfg.factors) = 2
  /\ ~WellFormed(flow.cfg) /\ ~Constructed /\ first = NoCall

\* ------------------------------------------------- initialization order
\* entry e of a call's log is the init operation, given x, s and init_scale
InitInvoked(e, xin, sarg, init_scale) ==
  e.op = "init" /\ e.x = xin /\ e.s = sarg /\ e.init_scale = init_scale

\* C14: FlowGenModel.init(data, init_scale) invokes, through bwdpass with
\* init=true, the flow's init once with that init_scale and neither forward
\* nor backward; VDeQuantFlowGenModel.init invokes the dequantization flow's
\* init first (through fwdpass, on the noise, conditioned on the data) and the
\* generative flow's init only after it.
InitInvokedOnceInOrder ==
  /\ first.api = "model_init" =>
       /\ ~first.rejected /\ Len(first.log) = 1
       /\ InitInvoked(first.log[1], x, Tuple(<<>>), first.init_scale)
  /\ first.api = "vdequant_init" =>
       /\ ~first.rejected /\ Len(first.log) \in {1, 2}
       /\ InitInvoked(first.log[1], first.epsilon, Tuple(<<T(x)>>), first.init_scale)
       /\ Len(first.log) = 2 <=> first.log[1].ok
       /\ Len(first.log) = 2 =>
            InitInvoked(first.log[2], x, Tuple(<<>>), first.init_scale)

\* both flows of a dequantizing model were initialized, with init_scale 2
InitInvokedOnceInOrderReached ==
  /\ first.api = "vdequant_init" /\ first.ok /\ first.init_scale = 2
  /\ Len(first.log) = 2 /\ first.log[1].x = first.epsilon /\ first.log[2].x = x
  /\ params.inited

\* ---------------------------------------------------- registry properties
\* the register calls made under tag, in order
RegisteredUnder(tag) ==
  LET Under(r) == r.tag = tag IN SelectSeq(registered, Under)

\* the class of the last register call under tag
LastRegistered(tag) == RegisteredUnder(tag)[Len(RegisteredUnder(tag))].cls

\* the table the register calls made so far build up, call by call
RECURSIVE Replayed(_)
Replayed(n) ==
  IF n = 0 THEN EmptyRegistry
  ELSE [Replayed(n - 1) EXCEPT ![registered[n].tag] = registered[n].cls]

\* C15: after any sequence of register calls, by_name(tag) through any class
\* returns the class registered last under tag, and fails for a tag never
\* registered; no by_name or from_params call changes the registry, which is
\* the one table the register calls built; from_params fails for a
\* configuration whose flow type is not registered.
ByNameReturnsLastRegistered ==
  /\ registry["Flow"] = Replayed(Len(registered))
  /\ lookup.api = "by_name" =>
       IF Len(RegisteredUnder(lookup.tag)) = 0
         THEN ~lookup.ok /\ lookup.cls = Absent
         ELSE lookup.ok /\ lookup.cls = LastRegistered(lookup.tag)
  /\ (lookup.api = "from_params" /\ Len(RegisteredUnder(lookup.tag)) = 0) => ~lookup.ok

\* a tag registered by two classes in turn, looked up through the class that
\* registered first
ByNameReturnsLastRegisteredReached ==
  /\ Len(RegisteredUnder("glow")) = 2
  /\ RegisteredUnder("glow")[1].cls = "MaCow" /\ LastRegistered("glow") = "Flow"
  /\ lookup.api = "by_name" /\ lookup.tag = "glow" /\ lookup.via = "MaCow"
  /\ lookup.ok /\ lookup.cls = "Flow"

\* ------------------------------------------------ conditioning in lockstep
\* the squeezes between the pyramid's input and block i: none for a bottom
\* block, one more for every internal or top block
SqueezesAt(cfg, i) == IF cfg.bottom THEN i - 1 ELSE i

\* the conditioning block call c received was squeezed as often as the tensor,
\* and kept all its channels
InLockstep(cfg, c) ==
  /\ c.x * Pow2(SqueezesAt(cfg, c.block)) = Side(cfg)
  /\ c.s = c.x
  /\ c.sc = cfg.s_channels * 4 ^ SqueezesAt(cfg, c.block)

\* C16: with a conditioning signal, at every block invocation of MaCow.forward,
\* MaCow.backward and MaCow.init the conditioning has been squeezed as many
\* times as the tensor at that level (not for the bottom block, once more for
\* each internal or top block) and never split; backward has unsqueezed it to
\* the resolution of each shallower level before that level's block runs.
ConditioningInLockstep ==
  (Pyramid /\ s.k = "tensor") =>
    \A t \in Traversals :
      /\ \A k \in 1..Len(t.calls) : InLockstep(flow.cfg, t.calls[k])
      /\ t.ok => \A i \in 1..flow.cfg.levels : Cardinality(BlockCalls(t, i)) = 1

\* backward through three levels without a bottom level, with conditioning:
\* the first block ran last, on a conditioning squeezed once
ConditioningInLockstepReached ==
  /\ Pyramid /\ s.k = "tensor" /\ flow.cfg.levels = 3 /\ ~flow.cfg.bottom
  /\ first.api = "backward" /\ first.ok
  /\ Len(first.rows[1].calls) = 3
  /\ first.rows[1].calls[3].block = 1
  /\ first.rows[1].calls[3].s * 2 = Side(flow.cfg)
  /\ first.rows[1].calls[3].sc = 4

\* ------------------------------------------------------ order of sub-flows
\* the six sub-flows of a unit in the order of their names
UnitOrder(u) ==
  <<u.actnorm1.id, u.conv1.id, u.conv2.id, u.actnorm2.id, u.conv3.id, u.conv4.id>>

\* the sub-flows of a step: those of its two units, then the coupling step
StepOrder(step) ==
  UnitOrder(step.units[1]) \o UnitOrder(step.units[2]) \o <<step.glow_step.id>>

\* the steps of a block: its own, or those of its layers
BlockSteps(block) ==
  {block.steps[k] : k \in 1..Len(block.steps)}
  \cup UNION {{block.layers[l][k] : k \in 1..Len(block.layers[l])} :
              l \in 1..Len(block.layers)}

PyramidSteps(m) == UNION {BlockSteps(m.blocks[i]) : i \in 1..Len(m.blocks)}

\* the sub-flows of ids, under operation op, are invoked one after the other
\* in trace, in this order and each once
RunsInOrder(trace, ids, op) ==
  /\ \E start \in 0..(Len(trace) - Len(ids)) :
       \A k \in 1..Len(ids) :
         trace[start + k].id = ids[k] /\ trace[start + k].op = op
  /\ Cardinality({k \in 1..Len(trace) : \E j \in 1..Len(ids) : trace[k].id = ids[j]})
       = Len(ids)

RECURSIVE DownFrom(_, _)
DownFrom(slices, k) == IF k = 0 THEN <<>> ELSE slices[k].v \o DownFrom(slices, k - 1)

\* the output of forward on block b is the retained slice followed by the
\* leaked slices of layers n, ..., 1, and has the channels of the input
LaidOut(b, c) ==
  /\ Len(c.slices) = Len(b.layers) + 1
  /\ \A k \in 1..Len(b.layers) :
       Channels(c.slices[k]) = Retained(b)[k] - Retained(b)[k + 1]
  /\ Channels(c.slices[Len(b.layers) + 1]) = b.z1_channels
  /\ c.out[1].v = DownFrom(c.slices, Len(c.slices))
  /\ Channels(c.out[1]) = Channels(c.x[1])
  /\ Height(c.out[1]) = Height(c.x[1]) /\ Width(c.out[1]) = Width(c.x[1])

\* C18: forward on an internal block of n layers returns a tensor with the
\* channels of its input, laid out as the final retained slice, then the
\* leaked slices of layers n, ..., 1; backward on it splits at each prior's
\* z1_channels, recombines and inverts in reverse layer order, and returns
\* the forward input with no slice left over.
InternalBlockLayout ==
  /\ first.api = "block_forward" =>
       (first.ok /\ LaidOut(Obj(flow).m.blocks[first.block], first))
  /\ second.api = "block_backward" => (second.ok /\ second.out = first.x)

\* forward and backward on a block of two layers, with conditioning
InternalBlockLayoutReached ==
  /\ first.api = "block_forward" /\ first.ok /\ Len(first.slices) = 3
  /\ first.given.k = "tensor"
  /\ second.api = "block_backward" /\ second.ok /\ second.out = first.x
  /\ first.out # first.x

\* ------------------------------------------- one log-determinant, two ways
\* C19: for a flow with either inverse flag whose backward log-determinant is
\* the negation of its forward one, bwdpass on the output of fwdpass(x) returns
\* the log-determinant fwdpass(x) returned, and decode on the output of
\* encode(x) returns the log-determinant encode(x) returned.
AdaptersAgreeOnLogdet ==
  /\ (first.api = "fwdpass" /\ second.api = "bwdpass") =>
       (second.ok /\ second.out = x /\ second.logdet = first.logdet)
  /\ (first.api = "encode" /\ second.api = "decode") =>
       (second.ok /\ second.out = x /\ second.logdet = first.logdet)

\* a round trip through the adapters of an inverse flow, with conditioning, on a
\* batch of two, whose log-determinants are not zero
AdaptersAgreeOnLogdetReached ==
  /\ flow.inverse /\ s.k = "tensor" /\ Len(x) = 2
  /\ first.api = "fwdpass" /\ first.ok /\ second.api = "bwdpass" /\ second.ok
  /\ second.logdet = first.logdet
  /\ \A i \in 1..Len(x) : first.logdet[i] # 0

\* ------------------------------------------------------ init as forward
\* traversal ti of init did what traversal tf of forward does: the same
\* squeezes, block calls, splits and unsplits, the same sub-flows in the same
\* order, each through its init with init_scale, and the same result
SameSequence(ti, tf, init_scale) ==
  /\ ti.ok = tf.ok /\ ti.out = tf.out /\ ti.logdet = tf.logdet
  /\ ti.calls = tf.calls /\ ti.ssq = tf.ssq
  /\ ti.pushed = tf.pushed /\ ti.popped = tf.popped /\ ti.outputs = tf.outputs
  /\ Len(ti.trace) = Len(tf.trace)
  /\ \A k \in 1..Len(ti.trace) :
       /\ ti.trace[k].id = tf.trace[k].id
       /\ ti.trace[k].op = "init" /\ ti.trace[k].scale = init_scale
       /\ tf.trace[k].op = "forward"
       /\ ti.trace[k].logdet = tf.trace[k].logdet

\* C20: MaCow.init (and with it the init of every block, step and unit)
\* performs the squeezes, sub-flow calls, splits, unsplits and unsqueezes of
\* forward in the same order, calling each sub-flow's init with the given
\* init_scale in place of its forward; the elementary init returning what the
\* elementary forward returns, init returns the (y, logdet) of forward on the
\* same input.
InitFollowsForward ==
  (Pyramid /\ first.api = "init") =>
    \A i \in 1..Len(first.rows) :
      SameSequence(first.rows[i],
                   MaCowForward(Obj(flow).m, params.seed, x[i], RowCond(s, i)),
                   first.init_scale)

\* init with init_scale 2 on a pyramid with a bottom level and a two-layer
\* internal block, with conditioning
InitFollowsForwardReached ==
  /\ Pyramid /\ Constructed /\ flow.cfg.bottom /\ InternalLevels = 1
  /\ flow.cfg.factors[1] = 3 /\ s.k = "tensor"
  /\ first.api = "init" /\ first.ok /\ first.init_scale = 2
  /\ first.rows[1].pushed # <<>> /\ first.rows[1].ssq = 2

\* ------------------------------------------ internal block construction
ConstructionInit ==
  /\ record = NoRecord
  /\ internal \in BlockArguments
  /\ registry = Loaded
  /\ registered = <<[cls |-> "MaCow", tag |-> "macow"]>>
  /\ lookup = NoLookup
  /\ flow = NoFlow
  /\ params = [seed |-> 0, inited |-> FALSE, scale |-> 0]
  /\ x = <<>>
  /\ s = None
  /\ first = NoCall
  /\ second = NoCall

\* MaCowInternalBlock(num_steps, in_channels, kernel_size, hidden_channels, s_channels, factor=factor)
DoBlockNew ==
  /\ ~internal.done
  /\ internal' = [internal EXCEPT
       !.done = TRUE,
       !.macow_block = MaCowInternalBlockNew(1, [k \in 1..internal.num_layers |-> 1],
                         internal.in_channels, 0, internal.factor)]
  /\ UNCHANGED <<record, registry, registered, lookup, flow, params, x, s, first, second>>

ConstructionNext == DoBlockNew

ConstructionSpec == ConstructionInit /\ [][ConstructionNext]_vars

\* the channel count entering layer k of the block under construction: the
\* previous count minus the fixed step in_channels // factor
Entering(k) == internal.in_channels - (k - 1) * (internal.in_channels \div internal.factor)

\* the assertion in_channels == prior.z1_channels held for the layers 1..n
AssertionsHeld(b, n) ==
  /\ b.ok
  /\ Len(b.priors) = n
  /\ \A k \in 1..n :
       /\ b.priors[k].z1_channels = Entering(k) - (Entering(k) \div (internal.factor - (k - 1)))
       /\ b.priors[k].z1_channels = Entering(k + 1)

LeaksStep(k) ==
  Entering(k) \div (internal.factor - (k - 1)) = internal.in_channels \div internal.factor

PyramidPriors(m) ==
  UNION {{m.blocks[i].priors[l].e : l \in 1..Len(m.blocks[i].priors)} : i \in 1..Len(m.blocks)}

\* the invocations on the sub-flow of identifier id in the record of a sync
SyncsOf(c, id) == {k \in 1..Len(c.synced) : c.synced[k].id = id}

\* the record c of a sync holds one sync of every step's coupling sub-block and
\* of every prior of pyramid m, and nothing else
SyncedOnce(c, m) ==
  /\ c.ok
  /\ \A step \in PyramidSteps(m) : Cardinality(SyncsOf(c, step.glow_step.id)) = 1
  /\ \A prior \in PyramidPriors(m) : Cardinality(SyncsOf(c, prior.id)) = 1
  /\ Len(c.synced) = Cardinality(PyramidSteps(m)) + Cardinality(PyramidPriors(m))
  /\ \A k \in 1..Len(c.synced) : c.synced[k].op = "sync"
  /\ c.rows = <<>> /\ c.log = <<>>

\* C22: MaCow.sync invokes sync exactly once on the coupling sub-block of every
\* step of every block (every step of every layer of an internal block
\* included) and exactly once on every prior of every internal block, and
\* invokes no forward, backward or init operation; FlowGenModel.sync reaches
\* the same set through the wrapped pyramid.
SyncReachesEverySubBlockOnce ==
  \A c \in Calls :
    c.api \in {"sync", "model_sync"} =>
      /\ SyncedOnce(c, Obj(flow).m)
      /\ params.inited = FALSE

\* FlowGenModel.sync on a pyramid with a bottom level and an internal block of
\* two layers: five steps and two priors are synced
SyncReachesEverySubBlockOnceReached ==
  /\ Pyramid /\ Constructed /\ flow.cfg.bottom /\ InternalLevels = 1
  /\ flow.cfg.factors[1] = 3
  /\ first.api = "model_sync" /\ first.ok
  /\ Cardinality(PyramidPriors(Obj(flow).m)) = 2
  /\ Len(first.synced) = Cardinality(PyramidSteps(Obj(flow).m)) + 2

\* ------------------------------------------------ configuration records
\* the flow arguments of the records: those from_params is given, and the
\* pyramids of two levels without conditioning
RecordConfigs == ParamsGiven \cup {cfg \in Configs : cfg.levels = 2 /\ cfg.s_channels = 0}

\* the records callers write, with or without the option ngpu
Records ==
  {RecordOf(model, type, cfg, options) :
     model \in {"FlowGenModel", "VDeQuantFlowGenModel"}, type \in Tags,
     cfg \in RecordConfigs, options \in {<<>>, [ngpu |-> 1]}}

\* the module macow.flows.macow is loaded and the caller holds no record
RecordInit ==
  /\ record = NoRecord
  /\ internal = NotBuilt
  /\ registry = Loaded
  /\ registered = <<[cls |-> "MaCow", tag |-> "macow"]>>
  /\ lookup = NoLookup
  /\ flow = NoFlow
  /\ params = [seed |-> 0, inited |-> FALSE, scale |-> 0]
  /\ x = <<>>
  /\ s = None
  /\ first = NoCall
  /\ second = NoCall

\* config = {...}; FlowGenModel.from_params(config) or
\* VDeQuantFlowGenModel.from_params(config)
DoModelFromParams ==
  /\ \E r \in Records :
       LET done == ModelFromParams(registry, r.model, r)
       IN /\ lookup' = [api |-> "from_params", via |-> "Flow", tag |-> TypeIn(r),
                        ok |-> done.ok, cls |-> done.cls, err |-> done.err]
          /\ record' = [done.record EXCEPT !.calls = 1]
  /\ UNCHANGED <<internal, registry, registered, flow, params, x, s, first, second>>

\* the same from_params on the record passed before
DoModelFromParamsAgain ==
  /\ record.calls \in 1..(MaxCalls - 1)
  /\ LET done == ModelFromParams(registry, record.model, record)
     IN /\ lookup' = [api |-> "from_params", via |-> "Flow", tag |-> TypeIn(record),
                      ok |-> done.ok, cls |-> done.cls, err |-> done.err]
        /\ record' = [done.record EXCEPT !.calls = @ + 1]
  /\ UNCHANGED <<internal, registry, registered, flow, params, x, s, first, second>>

RecordNext ==
  \/ DoModelFromParams
  \/ DoModelFromParamsAgain

RecordSpec == RecordInit /\ [][RecordNext]_vars

\* C23: FlowGenModel.from_params and VDeQuantFlowGenModel.from_params leave the
\* configuration record passed by the caller, and its nested flow record,
\* unchanged, so that the same record passed again is read as it was written
\* and no key of it is missing.
RecordLeftUnchanged ==
  record.calls > 0 =>
    /\ Content(record) = record.given
    /\ (lookup.api = "from_params" /\ record.calls > 1) => lookup.tag = record.given.flow_params.type

====
